---- MODULE Spec2Model ----
(***************************************************************************)
(* Speaker verification core of sayly-backend: threshold store             *)
(* (services/threshold_service.py), decision policy                        *)
(* (models/verification.py) and verification service                       *)
(* (services/verification_service.py, api/analysis.py).                    *)
(*                                                                         *)
(* Similarities and thresholds are fixed-point numbers in units of 1/1000  *)
(* (0.75 is 750).  Embeddings are integer vectors whose Euclidean norm is  *)
(* an integer, so every cosine similarity of the model is exact.           *)
(***************************************************************************)
EXTENDS Integers, Sequences, FiniteSets, TLC

VARIABLES
    thresholdDocs,   \* Firestore collection 'verification_thresholds': env name -> document
    osEnviron,       \* os.environ: variable name -> string value or Unset
    userLog,         \* Firestore verification_logs/<uid>/scores, in insertion order
    globalLog,       \* Firestore verification_logs/_global/scores, in insertion order
    ret,             \* the last operation: its name, its arguments and its outcome
    split,           \* the split_audio call in progress: its arguments, locals and position
    job,             \* the process_audio_analysis task: its locals, its session, its position
    voiceProfile,    \* Firestore document voice_profiles/<uid> of the one user of the model
    userPrivacy,     \* Firestore document user_privacy/<uid> of the one user of the model
    listeningSessions, \* Firestore collection 'listening_sessions': session id -> document
    requests         \* the API requests and background tasks in flight: slot -> position and locals

vars == <<thresholdDocs, osEnviron, userLog, globalLog, ret, split, job, voiceProfile, userPrivacy, listeningSessions, requests>>

\* the state behind the HTTP API (api/voice.py, api/sessions.py, api/analysis.py), which the
\* services leave alone
apiVars == <<voiceProfile, userPrivacy, listeningSessions, requests>>

\* the state of the audio pipeline, which the threshold store and the verification calls
\* leave alone
pipelineVars == <<split, job>>

(***************************************************************************)
(* Bounds of the model                                                     *)
(***************************************************************************)
MaxEnroll == 3       \* longest enrollment set handed to a verification call

(***************************************************************************)
(* Python values                                                           *)
(***************************************************************************)
None == "None"       \* Python None for string-typed arguments

\* a Firestore document that does not exist (doc.exists is False)
NoProfile == [exists |-> FALSE]
NoPrivacy == [exists |-> FALSE]

\* no request in flight, no user document and no session stored
NoApiState ==
    /\ voiceProfile = NoProfile
    /\ userPrivacy = NoPrivacy
    /\ listeningSessions = <<>>
    /\ requests = <<>>
Unset == "<unset>"   \* an environment variable that is not set

Truthy(s) == s # None /\ s # ""          \* 'if s:' / 's or default' on Optional[str]

(***************************************************************************)
(* models/threshold_config.py                                              *)
(***************************************************************************)
ValidEnvironments == {"dev", "test", "prod"}

InUnitRange(x) == x >= 0 /\ x <= 1000

\* pydantic validation of ThresholdConfig(**data): the Literal and ge/le constraints
ThresholdConfigValid(data) ==
    /\ data.environment \in ValidEnvironments
    /\ InUnitRange(data.ownerThreshold)
    /\ InUnitRange(data.uncertainThreshold)

(***************************************************************************)
(* services/threshold_service.py                                           *)
(***************************************************************************)
BUILTIN_OWNER_THRESHOLD == "0.75"
BUILTIN_UNCERTAIN_THRESHOLD == "0.6"
BUILTIN_ENVIRONMENT == "dev"
DefaultNotes == "Default configuration from environment variables"

\* float(s) on the strings the model uses (IsFloatString tells whether float(s) raises)
ParseFloat(s) ==
    CASE s = "0.75" -> 750
      [] s = "0.6"  -> 600
      [] s = "0.8"  -> 800
      [] s = "0.5"  -> 500
      [] s = "0.9"  -> 900
      [] s = "0.7"  -> 700
      [] s = "1.5"  -> 1500
      [] OTHER      -> -1

IsFloatString(s) == s \in {"0.75", "0.6", "0.8", "0.5", "0.9", "0.7", "1.5"}

\* str(x) of a float previously parsed by ParseFloat
FloatStr(x) ==
    CASE x = 750  -> "0.75"
      [] x = 600  -> "0.6"
      [] x = 800  -> "0.8"
      [] x = 500  -> "0.5"
      [] x = 900  -> "0.9"
      [] x = 700  -> "0.7"
      [] x = 1500 -> "1.5"
      [] OTHER    -> "nan"

\* str.upper() on the environment names of the model
Upper(s) ==
    CASE s = "dev"     -> "DEV"
      [] s = "test"    -> "TEST"
      [] s = "prod"    -> "PROD"
      [] s = "staging" -> "STAGING"
      [] OTHER         -> s

\* os.getenv(name, default)
GetEnv(environ, name, default) ==
    IF name \in DOMAIN environ /\ environ[name] # Unset THEN environ[name] ELSE default

\* module-level constants, evaluated from the environment at import
DEFAULT_OWNER_THRESHOLD(environ) ==
    ParseFloat(GetEnv(environ, "VERIFICATION_OWNER_THRESHOLD", BUILTIN_OWNER_THRESHOLD))
DEFAULT_UNCERTAIN_THRESHOLD(environ) ==
    ParseFloat(GetEnv(environ, "VERIFICATION_UNCERTAIN_THRESHOLD", BUILTIN_UNCERTAIN_THRESHOLD))
DEFAULT_ENVIRONMENT(environ) ==
    GetEnv(environ, "VERIFICATION_ENVIRONMENT", BUILTIN_ENVIRONMENT)

EnvNames == {"dev", "test", "prod", "staging"}

NoDoc == [exists |-> FALSE, environment |-> "", ownerThreshold |-> 0,
          uncertainThreshold |-> 0, notes |-> ""]

NoConfig == [environment |-> "", ownerThreshold |-> 0, uncertainThreshold |-> 0, notes |-> ""]

DocToConfig(doc) ==
    [environment |-> doc.environment, ownerThreshold |-> doc.ownerThreshold,
     uncertainThreshold |-> doc.uncertainThreshold, notes |-> doc.notes]

ConfigToDoc(cfg) ==
    [exists |-> TRUE, environment |-> cfg.environment, ownerThreshold |-> cfg.ownerThreshold,
     uncertainThreshold |-> cfg.uncertainThreshold, notes |-> cfg.notes]

\* lines 64-75 of get_threshold_config: the fallback to environment variables and defaults
FallbackConfig(env, environ) ==
    LET construct(cfg) ==
            IF ThresholdConfigValid(cfg) THEN [exc |-> None, cfg |-> cfg]
            ELSE [exc |-> "ValidationError", cfg |-> NoConfig]
        parse(ownerStr, uncertainStr) ==
            IF ~IsFloatString(ownerStr) \/ ~IsFloatString(uncertainStr)
            THEN [exc |-> "ValueError", cfg |-> NoConfig]
            ELSE construct([environment |-> env, ownerThreshold |-> ParseFloat(ownerStr),
                            uncertainThreshold |-> ParseFloat(uncertainStr),
                            notes |-> DefaultNotes])
    IN  parse(GetEnv(environ, "VERIFICATION_OWNER_THRESHOLD_" \o Upper(env),
                     FloatStr(DEFAULT_OWNER_THRESHOLD(environ))),
              GetEnv(environ, "VERIFICATION_UNCERTAIN_THRESHOLD_" \o Upper(env),
                     FloatStr(DEFAULT_UNCERTAIN_THRESHOLD(environ))))

\* get_threshold_config with the priority reversed: a set per-environment variable wins over
\* the persisted document
get_threshold_config_env_first(environment, docs, environ, dbOk) ==
    LET load(env, doc, fallback) ==
            IF fallback.exc = None
               /\ GetEnv(environ, "VERIFICATION_OWNER_THRESHOLD_" \o Upper(env), Unset) # Unset
            THEN fallback
            ELSE IF dbOk /\ doc.exists /\ ThresholdConfigValid(doc)
            THEN [exc |-> None, cfg |-> DocToConfig(doc)]
            ELSE fallback
        resolve(env) == load(env, IF env \in DOMAIN docs THEN docs[env] ELSE NoDoc,
                             FallbackConfig(env, environ))
    IN  resolve(IF Truthy(environment) THEN environment ELSE DEFAULT_ENVIRONMENT(environ))

\* get_threshold_config(environment); dbOk = FALSE when get_firestore_db() or .get() raises
get_threshold_config(environment, docs, environ, dbOk) ==
    LET load(env, doc) ==
            IF dbOk /\ doc.exists /\ ThresholdConfigValid(doc)
            THEN [exc |-> None, cfg |-> DocToConfig(doc)]
            ELSE FallbackConfig(env, environ)
        resolve(env) == load(env, IF env \in DOMAIN docs THEN docs[env] ELSE NoDoc)
    IN  resolve(IF Truthy(environment) THEN environment ELSE DEFAULT_ENVIRONMENT(environ))

\* update_threshold_config writing the two thresholds into the existing document and keeping
\* its other fields
update_threshold_config_partial(config, docs, dbOk) ==
    IF dbOk
    THEN [exc |-> None, docs |-> [e \in DOMAIN docs |->
              IF e = config.environment
              THEN [docs[e] EXCEPT !.exists = TRUE,
                                   !.ownerThreshold = config.ownerThreshold,
                                   !.uncertainThreshold = config.uncertainThreshold]
              ELSE docs[e]]]
    ELSE [exc |-> "Exception", docs |-> docs]

\* update_threshold_config(config): set(config.dict(), merge=False) on document <environment>
update_threshold_config(config, docs, dbOk) ==
    IF dbOk
    THEN [exc |-> None, docs |-> [e \in DOMAIN docs |->
              IF e = config.environment THEN ConfigToDoc(config) ELSE docs[e]]]
    ELSE [exc |-> "Exception", docs |-> docs]

Uids == {"u1"}

SinkOutcomes == {"ok", "db_unavailable", "user_add_fails", "global_add_fails"}

Observation(uid, similarity, decision, env) ==
    [similarity |-> similarity, decision |-> decision, environment |-> env, uid |-> uid]

\* log_similarity_score without its try/except: a failing Firestore call propagates
log_similarity_score_raising(uid, similarity, decision, environment, environ, sink, ulog, glog) ==
    LET add(obs) ==
            CASE sink = "db_unavailable" ->
                     [exc |-> "RuntimeError", userLog |-> ulog, globalLog |-> glog]
              [] sink = "user_add_fails" ->
                     [exc |-> "Exception", userLog |-> ulog, globalLog |-> glog]
              [] sink = "global_add_fails" ->
                     [exc |-> "Exception", userLog |-> [ulog EXCEPT ![uid] = Append(@, obs)],
                      globalLog |-> glog]
              [] OTHER ->
                     [exc |-> None, userLog |-> [ulog EXCEPT ![uid] = Append(@, obs)],
                      globalLog |-> Append(glog, obs)]
    IN  add(Observation(uid, similarity, decision,
                        IF Truthy(environment) THEN environment ELSE DEFAULT_ENVIRONMENT(environ)))

\* log_similarity_score(uid, similarity, decision, environment): every exception is swallowed;
\* sink tells which Firestore call of the body raises, if any
log_similarity_score(uid, similarity, decision, environment, environ, sink, ulog, glog) ==
    LET add(obs) ==
            CASE sink = "db_unavailable" -> [exc |-> None, userLog |-> ulog, globalLog |-> glog]
              [] sink = "user_add_fails" -> [exc |-> None, userLog |-> ulog, globalLog |-> glog]
              [] sink = "global_add_fails" ->
                     [exc |-> None, userLog |-> [ulog EXCEPT ![uid] = Append(@, obs)],
                      globalLog |-> glog]
              [] OTHER ->
                     [exc |-> None, userLog |-> [ulog EXCEPT ![uid] = Append(@, obs)],
                      globalLog |-> Append(glog, obs)]
    IN  add(Observation(uid, similarity, decision,
                        IF Truthy(environment) THEN environment ELSE DEFAULT_ENVIRONMENT(environ)))

(***************************************************************************)
(* models/verification.py                                                  *)
(***************************************************************************)
UserDecisions == {"OWNER", "OTHER"}
InternalStates == {"OWNER", "UNCERTAIN", "OTHER", "SKIPPED"}

\* apply_decision_v1 with strict comparisons
apply_decision_v1_strict(max_similarity, owner_threshold, uncertain_threshold) ==
    IF max_similarity > owner_threshold THEN <<"OWNER", "OWNER">>
    ELSE IF max_similarity > uncertain_threshold THEN <<"OTHER", "UNCERTAIN">>
    ELSE <<"OTHER", "OTHER">>

\* apply_decision_v1 presenting the uncertain band to the user as OWNER
apply_decision_v1_uncertain_owner(max_similarity, owner_threshold, uncertain_threshold) ==
    IF max_similarity >= owner_threshold THEN <<"OWNER", "OWNER">>
    ELSE IF max_similarity >= uncertain_threshold THEN <<"OWNER", "UNCERTAIN">>
    ELSE <<"OTHER", "OTHER">>

\* apply_decision_v1 testing the uncertain threshold before the owner threshold
apply_decision_v1_uncertain_first(max_similarity, owner_threshold, uncertain_threshold) ==
    IF max_similarity < uncertain_threshold THEN <<"OTHER", "OTHER">>
    ELSE IF max_similarity >= owner_threshold THEN <<"OWNER", "OWNER">>
    ELSE <<"OTHER", "UNCERTAIN">>

\* VerificationPolicy.apply_decision_v1: <<user_decision, internal_state>>
apply_decision_v1(max_similarity, owner_threshold, uncertain_threshold) ==
    IF max_similarity >= owner_threshold THEN <<"OWNER", "OWNER">>
    ELSE IF max_similarity >= uncertain_threshold THEN <<"OTHER", "UNCERTAIN">>
    ELSE <<"OTHER", "OTHER">>

\* apply_decision as the docstring of verify_speaker describes it: both metrics decide
apply_decision_two_metrics(max_similarity, top_k_mean, owner_threshold, uncertain_threshold) ==
    IF max_similarity >= owner_threshold /\ top_k_mean >= owner_threshold
    THEN <<"OWNER", "OWNER">>
    ELSE IF max_similarity >= uncertain_threshold \/ top_k_mean >= uncertain_threshold
    THEN <<"OTHER", "UNCERTAIN">>
    ELSE <<"OTHER", "OTHER">>

\* VerificationPolicy.apply_decision: top_k_mean is accepted and not used
apply_decision(max_similarity, top_k_mean, owner_threshold, uncertain_threshold) ==
    apply_decision_v1(max_similarity, owner_threshold, uncertain_threshold)

\* pydantic validation of VerificationDecision(...)
VerificationDecisionValid(d) ==
    /\ d.decision \in UserDecisions
    /\ d.internalState \in InternalStates
    /\ InUnitRange(d.maxSimilarity)
    /\ InUnitRange(d.topKMean)

NoDecision == [decision |-> "", internalState |-> "", maxSimilarity |-> 0, topKMean |-> 0,
               allSimilarities |-> <<>>, thresholdUsed |-> {}]

\* the degraded decision built where a chunk's verification fails
SkippedDecision == [decision |-> "OWNER", internalState |-> "SKIPPED", maxSimilarity |-> 0,
                    topKMean |-> 0, allSimilarities |-> <<>>, thresholdUsed |-> {}]

(***************************************************************************)
(* services/verification_service.py                                        *)
(***************************************************************************)
RECURSIVE DotFrom(_, _, _)
DotFrom(a, b, i) == IF i > Len(a) THEN 0 ELSE a[i] * b[i] + DotFrom(a, b, i + 1)

Dot(a, b) == DotFrom(a, b, 1)

Abs(x) == IF x < 0 THEN -x ELSE x

RECURSIVE SumAbsFrom(_, _)
SumAbsFrom(a, i) == IF i > Len(a) THEN 0 ELSE Abs(a[i]) + SumAbsFrom(a, i + 1)

\* the integer square root of d, searched up to hi
IntSqrt(d, hi) == CHOOSE n \in 0..hi : n * n <= d /\ (n + 1) * (n + 1) > d

\* np.linalg.norm on vectors whose norm is an integer (the norm is at most the sum of
\* the absolute values of the components)
Norm(a) == IntSqrt(Dot(a, a), SumAbsFrom(a, 1))

DimensionMsg == "Embedding dimensions must match"

\* cosine_similarity(embedding1, embedding2), in 1/1000
cosine_similarity(embedding1, embedding2) ==
    LET divide(dot_product, norm1, norm2) ==
            IF norm1 = 0 \/ norm2 = 0 THEN [exc |-> None, msg |-> "", value |-> 0]
            ELSE [exc |-> None, msg |-> "", value |-> (dot_product * 1000) \div (norm1 * norm2)]
    IN  IF Len(embedding1) # Len(embedding2)
        THEN [exc |-> "ValueError", msg |-> DimensionMsg, value |-> 0]
        ELSE divide(Dot(embedding1, embedding2), Norm(embedding1), Norm(embedding2))

\* the loop of verify_speaker skipping an embedding whose comparison fails
RECURSIVE SimilaritiesSkipping(_, _, _, _)
SimilaritiesSkipping(session_embedding, enrollment_embeddings, i, acc) ==
    LET step(sim) ==
            SimilaritiesSkipping(session_embedding, enrollment_embeddings, i + 1,
                                 IF sim.exc # None THEN acc ELSE Append(acc, sim.value))
    IN  IF i > Len(enrollment_embeddings) THEN [exc |-> None, msg |-> "", sims |-> acc]
        ELSE step(cosine_similarity(session_embedding, enrollment_embeddings[i]))

\* the loop of verify_speaker over the enrollment embeddings; it re-raises the first error
RECURSIVE Similarities(_, _, _, _)
Similarities(session_embedding, enrollment_embeddings, i, acc) ==
    LET step(sim) ==
            IF sim.exc # None THEN [exc |-> sim.exc, msg |-> sim.msg, sims |-> acc]
            ELSE Similarities(session_embedding, enrollment_embeddings, i + 1,
                              Append(acc, sim.value))
    IN  IF i > Len(enrollment_embeddings) THEN [exc |-> None, msg |-> "", sims |-> acc]
        ELSE step(cosine_similarity(session_embedding, enrollment_embeddings[i]))

SeqMax(s) == CHOOSE m \in {s[i] : i \in 1..Len(s)} : \A i \in 1..Len(s) : s[i] <= m

\* s without its element at index k
RemoveAt(s, k) == [i \in 1..(Len(s) - 1) |-> IF i < k THEN s[i] ELSE s[i + 1]]

\* sorted(similarities, reverse=True)
RECURSIVE SortedDesc(_)
SortedDesc(s) ==
    LET take(k) == <<s[k]>> \o SortedDesc(RemoveAt(s, k))
        first(m) == take(CHOOSE i \in 1..Len(s) : s[i] = m)
    IN  IF s = <<>> THEN <<>> ELSE first(SeqMax(s))

\* np.mean(sorted_similarities[:top_k]) with top_k = min(2, len)
TopKMean(similarities) ==
    LET mean(sorted) == IF Len(sorted) >= 2 THEN (sorted[1] + sorted[2]) \div 2 ELSE sorted[1]
    IN  mean(SortedDesc(similarities))

ThresholdUsed(cfg) ==
    {<<"ownerThreshold", cfg.ownerThreshold>>, <<"uncertainThreshold", cfg.uncertainThreshold>>}

\* verify_speaker(session_embedding, enrollment_embeddings, environment, uid) in a world
\* (docs, environ, logs); dbOk and sink are the outcomes of the Firestore calls it makes.
\* The call of log_similarity_score sits in a try/except that swallows every exception.
verify_speaker(session_embedding, enrollment_embeddings, environment, uid, docs, environ, dbOk, sink, ulog, glog) ==
    LET fail(exc, msg, ul, gl) ==
            [exc |-> exc, msg |-> msg, decision |-> NoDecision, userLog |-> ul, globalLog |-> gl]
        \* lines 132-145: the VerificationDecision is built after the observation is logged
        construct(decision, logged) ==
            IF ~VerificationDecisionValid(decision)
            THEN fail("ValidationError", "VerificationDecision", logged.userLog, logged.globalLog)
            ELSE [exc |-> None, msg |-> "", decision |-> decision,
                  userLog |-> logged.userLog, globalLog |-> logged.globalLog]
        \* lines 125-130
        log(similarities, max_similarity, top_k_mean, cfg, policy) ==
            construct([decision |-> policy[1], internalState |-> policy[2],
                       maxSimilarity |-> max_similarity, topKMean |-> top_k_mean,
                       allSimilarities |-> similarities, thresholdUsed |-> ThresholdUsed(cfg)],
                      IF Truthy(uid)
                      THEN log_similarity_score(uid, max_similarity, policy[2], environment,
                                                environ, sink, ulog, glog)
                      ELSE [exc |-> None, userLog |-> ulog, globalLog |-> glog])
        \* lines 114-123
        decide(similarities, max_similarity, top_k_mean, threshold_config) ==
            IF threshold_config.exc # None
            THEN fail(threshold_config.exc, "ThresholdConfig", ulog, glog)
            ELSE log(similarities, max_similarity, top_k_mean, threshold_config.cfg,
                     apply_decision(max_similarity, top_k_mean,
                                    threshold_config.cfg.ownerThreshold,
                                    threshold_config.cfg.uncertainThreshold))
        \* lines 103-115
        metrics(sims) ==
            IF sims.exc # None THEN fail(sims.exc, sims.msg, ulog, glog)
            ELSE IF sims.sims = <<>> THEN fail("ValueError", "No similarities computed", ulog, glog)
            ELSE decide(sims.sims, SeqMax(sims.sims), TopKMean(sims.sims),
                        get_threshold_config(environment, docs, environ, dbOk))
    IN  IF Len(enrollment_embeddings) = 0
        THEN fail("ValueError", "No enrollment embeddings provided", ulog, glog)
        ELSE metrics(Similarities(session_embedding, enrollment_embeddings, 1, <<>>))

\* model_versioning_service: ModelMetadata of the running model and of an enrollment
HF_MODEL_ID == "speechbrain/spkrec-ecapa-voxceleb"
CurrentModelMetadata == [modelId |-> HF_MODEL_ID, modelRevision |-> "main", modelVersion |-> "1.0.0"]
NoMetadata == [modelId |-> "", modelRevision |-> "", modelVersion |-> ""]

\* ModelMetadata.is_compatible_with: get_compatible_versions(v) is [v]
is_compatible_with(self, other) ==
    self.modelId = other.modelId /\ self.modelVersion = other.modelVersion

\* check_embedding_compatibility: <<compatible, warning>>
check_embedding_compatibility(enrollment_metadata, current_metadata) ==
    IF ~is_compatible_with(current_metadata, enrollment_metadata)
    THEN <<FALSE, "re-enroll: model version changed">>
    ELSE IF enrollment_metadata.modelRevision # current_metadata.modelRevision
    THEN <<TRUE, "model revision changed">>
    ELSE <<TRUE, None>>

Missing == "<missing>"   \* a required pydantic field that the constructor call does not pass

\* pydantic validation of VerificationResult(...)
VerificationResultValid(r) ==
    /\ r.status \in {"SUCCESS", "SKIPPED", "ERROR"}
    /\ r.decision \in UserDecisions
    /\ r.internalStatus \in {"SUCCESS", "SKIPPED", "ERROR"}

NoResult == [status |-> "", internalStatus |-> "", decision |-> "", shouldProcess |-> FALSE,
             maxSimilarity |-> 0, topKMean |-> 0, error |-> None, errorReason |-> None]

\* the error_reason chain of verify_session_audio on str(e).lower()
ErrorReason(msg) ==
    CASE msg = "request timeout"     -> "timeout"
      [] msg = "http 429"            -> "rate_limit"
      [] msg = "http 503"            -> "cold_start"
      [] msg = "network unreachable" -> "network_error"
      [] OTHER                       -> "unknown"

\* verify_session_audio(audio_path, enrollment_embeddings, enrollment_metadata, environment, uid);
\* extracted is the outcome of extract_speaker_embedding(audio_path)
verify_session_audio(extracted, enrollment_embeddings, enrollment_metadata, environment, uid, docs, environ, dbOk, sink, ulog, glog) ==
    LET construct(r, ul, gl) ==
            IF VerificationResultValid(r)
            THEN [exc |-> None, result |-> r, userLog |-> ul, globalLog |-> gl]
            ELSE [exc |-> "ValidationError", result |-> NoResult, userLog |-> ul, globalLog |-> gl]
        \* lines 240-279
        verify(warning, vs) ==
            IF vs.exc = None
            THEN construct([status |-> "SUCCESS", internalStatus |-> "SUCCESS",
                            decision |-> vs.decision.decision, shouldProcess |-> TRUE,
                            maxSimilarity |-> vs.decision.maxSimilarity,
                            topKMean |-> vs.decision.topKMean,
                            error |-> warning, errorReason |-> None],
                           vs.userLog, vs.globalLog)
            ELSE construct([status |-> "ERROR", internalStatus |-> "ERROR", decision |-> "OWNER",
                            shouldProcess |-> TRUE, maxSimilarity |-> 0, topKMean |-> 0,
                            error |-> vs.msg, errorReason |-> "verification_error"],
                           vs.userLog, vs.globalLog)
        \* lines 190-238
        check(compat) ==
            IF ~compat[1]
            THEN construct([status |-> "ERROR", internalStatus |-> Missing,
                            decision |-> "BLOCKED", shouldProcess |-> FALSE,
                            maxSimilarity |-> 0, topKMean |-> 0,
                            error |-> "incompatible", errorReason |-> "model_incompatibility"],
                           ulog, glog)
            ELSE IF extracted.exc # None
            THEN construct([status |-> "SKIPPED", internalStatus |-> Missing,
                            decision |-> "BLOCKED", shouldProcess |-> FALSE,
                            maxSimilarity |-> 0, topKMean |-> 0,
                            error |-> extracted.msg, errorReason |-> ErrorReason(extracted.msg)],
                           ulog, glog)
            ELSE verify(compat[2],
                        verify_speaker(extracted.embedding, enrollment_embeddings, environment,
                                       uid, docs, environ, dbOk, sink, ulog, glog))
    IN  check(IF enrollment_metadata # NoMetadata
              THEN check_embedding_compatibility(enrollment_metadata, CurrentModelMetadata)
              ELSE <<TRUE, None>>)

ChunkVerification(chunk, decision) ==
    [startTime |-> chunk.start_time, endTime |-> chunk.end_time, decision |-> decision,
     chunkIndex |-> chunk.index]

NoChunkVerification ==
    [startTime |-> 0, endTime |-> 0, decision |-> NoDecision, chunkIndex |-> -1]

\* verify_chunk_audio(chunk_path, chunk_start_time, chunk_end_time, chunk_index,
\*                    enrollment_embeddings, environment, uid)
verify_chunk_audio(extracted, chunk, enrollment_embeddings, environment, uid, docs, environ, dbOk, sink, ulog, glog) ==
    LET verify(vs) ==
            IF vs.exc # None
            THEN [exc |-> vs.exc, msg |-> vs.msg, cv |-> NoChunkVerification,
                  userLog |-> vs.userLog, globalLog |-> vs.globalLog]
            ELSE [exc |-> None, msg |-> "", cv |-> ChunkVerification(chunk, vs.decision),
                  userLog |-> vs.userLog, globalLog |-> vs.globalLog]
    IN  IF extracted.exc # None
        THEN [exc |-> None, msg |-> "", cv |-> ChunkVerification(chunk, SkippedDecision),
              userLog |-> ulog, globalLog |-> glog]
        ELSE verify(verify_speaker(extracted.embedding, enrollment_embeddings, environment, uid,
                                   docs, environ, dbOk, sink, ulog, glog))

(***************************************************************************)
(* api/analysis.py: one iteration of the chunk loop of                     *)
(* process_audio_analysis (the caller passes environment=None)             *)
(***************************************************************************)
\* the body of 'for chunk in chunks:': the chunk's verification and its user-facing decision
verify_chunk_step(extracted, chunk, enrollment_embeddings, uid, docs, environ, dbOk, sink, ulog, glog) ==
    LET append(vc) ==
            IF vc.exc = None
            THEN [caught |-> None, msg |-> "", cv |-> vc.cv,
                  chunk_decision |-> vc.cv.decision.decision,
                  userLog |-> vc.userLog, globalLog |-> vc.globalLog]
            ELSE [caught |-> vc.exc, msg |-> vc.msg,
                  cv |-> ChunkVerification(chunk, SkippedDecision),
                  chunk_decision |-> "OWNER", userLog |-> vc.userLog, globalLog |-> vc.globalLog]
    IN  append(verify_chunk_audio(extracted, chunk, enrollment_embeddings, None, uid,
                                  docs, environ, dbOk, sink, ulog, glog))

(***************************************************************************)
(* Inputs and worlds the operations are explored on                        *)
(***************************************************************************)
\* embeddings: five of dimension 2 (norm 5 or 0) and one of dimension 1
Embeddings == {<<3, 4>>, <<4, 3>>, <<5, 0>>, <<3, -4>>, <<0, 0>>, <<5>>}

\* the probes: their similarities to Embeddings are 1.0, 0.96, 0.8, 0.6, 0.0 and -0.28
Probes == {<<3, 4>>, <<4, 3>>, <<0, 0>>, <<5>>}

\* the sequences over S of length at most n
SeqsUpTo(S, n) == UNION {[1..k -> S] : k \in 0..n}

Enrollments == SeqsUpTo(Embeddings, MaxEnroll)

EnvironmentArgs == {None, "prod", "staging"}
VerifyEnvironmentArgs == {None, "staging"}
UidArgs == {None, "u1"}

CalibratedDoc(env) == [exists |-> TRUE, environment |-> env, ownerThreshold |-> 960,
                       uncertainThreshold |-> 800, notes |-> "calibrated"]
InvertedDoc(env) == [exists |-> TRUE, environment |-> env, ownerThreshold |-> 600,
                     uncertainThreshold |-> 700, notes |-> "inverted"]
MalformedDoc(env) == [exists |-> TRUE, environment |-> env, ownerThreshold |-> 1500,
                      uncertainThreshold |-> 650, notes |-> "malformed"]

\* the documents of 'verification_thresholds' when the service starts
InitialDocs ==
    [dev : {NoDoc, CalibratedDoc("dev"), InvertedDoc("dev"), MalformedDoc("dev")},
     test : {NoDoc},
     prod : {NoDoc, CalibratedDoc("prod")},
     staging : {NoDoc, CalibratedDoc("staging")}]

\* the environment variables the process is started with
Environs ==
    [VERIFICATION_ENVIRONMENT : {Unset, "staging"},
     VERIFICATION_OWNER_THRESHOLD : {Unset, "0.8"},
     VERIFICATION_UNCERTAIN_THRESHOLD : {Unset, "0.5"},
     VERIFICATION_OWNER_THRESHOLD_DEV : {Unset, "0.9", "1.5", "abc"},
     VERIFICATION_UNCERTAIN_THRESHOLD_DEV : {Unset, "0.7"}]

PlainEnviron ==
    [VERIFICATION_ENVIRONMENT |-> Unset,
     VERIFICATION_OWNER_THRESHOLD |-> Unset,
     VERIFICATION_UNCERTAIN_THRESHOLD |-> Unset,
     VERIFICATION_OWNER_THRESHOLD_DEV |-> Unset,
     VERIFICATION_UNCERTAIN_THRESHOLD_DEV |-> Unset]

\* configs a calibration action hands to update_threshold_config (each a valid ThresholdConfig)
UpdateConfigs ==
    {[environment |-> e, ownerThreshold |-> t[1], uncertainThreshold |-> t[2], notes |-> "update"] :
        e \in {"dev", "test"}, t \in {<<900, 700>>, <<500, 600>>}}

EmptyUserLog == [u \in Uids |-> <<>>]

NoRet == [op |-> "none"]

\* no split_audio call was made
NoSplit == [pc |-> "idle"]

\* no process_audio_analysis task was started
NoJob == [pc |-> "idle"]

(***************************************************************************)
(* Threshold store: calls of get_threshold_config and                      *)
(* update_threshold_config against a store and an environment              *)
(***************************************************************************)
InitThreshold ==
    /\ thresholdDocs \in InitialDocs
    /\ osEnviron \in Environs
    /\ userLog = EmptyUserLog
    /\ globalLog = <<>>
    /\ ret = NoRet
    /\ split = NoSplit
    /\ job = NoJob
    /\ NoApiState

GetThresholdConfig(environment, dbOk) ==
    \E r \in {get_threshold_config(environment, thresholdDocs, osEnviron, dbOk)} :
        /\ ret' = [op |-> "get_threshold_config", environment |-> environment, dbOk |-> dbOk,
                   exc |-> r.exc, cfg |-> r.cfg]
        /\ UNCHANGED <<thresholdDocs, osEnviron, userLog, globalLog, apiVars>>
        /\ UNCHANGED <<pipelineVars, apiVars>>

UpdateThresholdConfig(config, dbOk) ==
    \E r \in {update_threshold_config(config, thresholdDocs, dbOk)} :
        /\ thresholdDocs' = r.docs
        /\ ret' = [op |-> "update_threshold_config", config |-> config, dbOk |-> dbOk,
                   exc |-> r.exc]
        /\ UNCHANGED <<osEnviron, userLog, globalLog>>
        /\ UNCHANGED <<pipelineVars, apiVars>>

NextThreshold ==
    \/ \E environment \in EnvironmentArgs \cup {"dev"}, dbOk \in BOOLEAN :
           GetThresholdConfig(environment, dbOk)
    \/ \E config \in UpdateConfigs, dbOk \in BOOLEAN :
           UpdateThresholdConfig(config, dbOk)

SpecThreshold == InitThreshold /\ [][NextThreshold]_vars

(***************************************************************************)
(* Verification: one call of verify_speaker (as made by verify_voice),     *)
(* verify_session_audio, the chunk loop body or log_similarity_score,      *)
(* on every input and world of the bounds                                  *)
(***************************************************************************)
VerifyDocs ==
    [dev : {NoDoc, CalibratedDoc("dev")}, test : {NoDoc}, prod : {NoDoc}, staging : {NoDoc}]

Init ==
    /\ thresholdDocs \in VerifyDocs
    /\ osEnviron = PlainEnviron
    /\ userLog = EmptyUserLog
    /\ globalLog = <<>>
    /\ ret = NoRet
    /\ split = NoSplit
    /\ job = NoJob
    /\ NoApiState

\* the sink is only reached with a uid
SinksFor(uid) == IF Truthy(uid) THEN SinkOutcomes ELSE {"ok"}

Extracted(embedding) == [exc |-> None, msg |-> "", embedding |-> embedding]
ExtractionFailed(msg) == [exc |-> "Exception", msg |-> msg, embedding |-> <<>>]

ExtractionOutcomes ==
    {Extracted(e) : e \in Probes} \cup {ExtractionFailed(m) : m \in {"request timeout", "boom"}}

EnrollmentMetadata ==
    {NoMetadata, CurrentModelMetadata,
     [modelId |-> HF_MODEL_ID, modelRevision |-> "main", modelVersion |-> "0.9.0"],
     [modelId |-> HF_MODEL_ID, modelRevision |-> "abc123", modelVersion |-> "1.0.0"]}

Chunks == {[index |-> 0, start_time |-> 0, end_time |-> 12]}

VerifySpeaker(probe, enrollment, environment, uid, dbOk, sink) ==
    \E r \in {verify_speaker(probe, enrollment, environment, uid,
                            thresholdDocs, osEnviron, dbOk, sink, userLog, globalLog)} :
        /\ ret' = [op |-> "verify_speaker", probe |-> probe, enrollment |-> enrollment,
                   environment |-> environment, uid |-> uid, dbOk |-> dbOk, sink |-> sink,
                   exc |-> r.exc, msg |-> r.msg, decision |-> r.decision]
        /\ userLog' = r.userLog
        /\ globalLog' = r.globalLog
        /\ UNCHANGED <<thresholdDocs, osEnviron>>
        /\ UNCHANGED <<pipelineVars, apiVars>>

VerifySessionAudio(extracted, enrollment, metadata, environment, uid, dbOk, sink) ==
    \E r \in {verify_session_audio(extracted, enrollment, metadata, environment, uid,
                                  thresholdDocs, osEnviron, dbOk, sink, userLog, globalLog)} :
        /\ ret' = [op |-> "verify_session_audio", extracted |-> extracted,
                   enrollment |-> enrollment, metadata |-> metadata,
                   environment |-> environment, uid |-> uid, dbOk |-> dbOk, sink |-> sink,
                   exc |-> r.exc, result |-> r.result]
        /\ userLog' = r.userLog
        /\ globalLog' = r.globalLog
        /\ UNCHANGED <<thresholdDocs, osEnviron>>
        /\ UNCHANGED <<pipelineVars, apiVars>>

VerifyChunkStep(extracted, chunk, enrollment, uid, dbOk, sink) ==
    \E r \in {verify_chunk_step(extracted, chunk, enrollment, uid,
                               thresholdDocs, osEnviron, dbOk, sink, userLog, globalLog)} :
        /\ ret' = [op |-> "verify_chunk_step", extracted |-> extracted, chunk |-> chunk,
                   enrollment |-> enrollment, uid |-> uid, dbOk |-> dbOk, sink |-> sink,
                   caught |-> r.caught, msg |-> r.msg, cv |-> r.cv,
                   chunk_decision |-> r.chunk_decision]
        /\ userLog' = r.userLog
        /\ globalLog' = r.globalLog
        /\ UNCHANGED <<thresholdDocs, osEnviron>>
        /\ UNCHANGED <<pipelineVars, apiVars>>

LogSimilarityScore(uid, similarity, decision, environment, sink) ==
    \E r \in {log_similarity_score(uid, similarity, decision, environment, osEnviron, sink,
                                  userLog, globalLog)} :
        /\ ret' = [op |-> "log_similarity_score", uid |-> uid, similarity |-> similarity,
                   decision |-> decision, environment |-> environment, sink |-> sink,
                   exc |-> r.exc]
        /\ userLog' = r.userLog
        /\ globalLog' = r.globalLog
        /\ UNCHANGED <<thresholdDocs, osEnviron>>
        /\ UNCHANGED <<pipelineVars, apiVars>>

\* one call per behaviour: the operations start from the state no call has touched
Idle == ret.op = "none"

Next ==
    \/ /\ Idle
       /\ \E probe \in Probes, enrollment \in Enrollments, environment \in VerifyEnvironmentArgs,
             uid \in UidArgs, dbOk \in BOOLEAN :
              \E sink \in SinksFor(uid) :
                  VerifySpeaker(probe, enrollment, environment, uid, dbOk, sink)
    \/ /\ Idle
       /\ \E extracted \in ExtractionOutcomes, enrollment \in Enrollments,
             metadata \in EnrollmentMetadata :
              VerifySessionAudio(extracted, enrollment, metadata, None, "u1", TRUE, "ok")
    \/ /\ Idle
       /\ \E extracted \in ExtractionOutcomes, chunk \in Chunks, enrollment \in Enrollments,
             sink \in {"ok", "user_add_fails"} :
              VerifyChunkStep(extracted, chunk, enrollment, "u1", TRUE, sink)
    \/ /\ Idle
       /\ \E similarity \in {-280, 640, 1000}, decision \in {"OWNER", "UNCERTAIN", "OTHER"},
             environment \in VerifyEnvironmentArgs, sink \in SinkOutcomes :
              LogSimilarityScore("u1", similarity, decision, environment, sink)

Spec == Init /\ [][Next]_vars

(***************************************************************************)
(* Helpers of the properties                                               *)
(***************************************************************************)
\* the value a thresholdUsed dictionary holds under a key
Used(d, key) == CHOOSE v \in {p[2] : p \in {q \in d.thresholdUsed : q[1] = key}} : TRUE

\* the three-way classification of a similarity s under thresholds (owner, uncertain)
ThreeWay(sim, owner, uncertain) ==
    IF sim >= owner THEN "OWNER" ELSE IF sim >= uncertain THEN "UNCERTAIN" ELSE "OTHER"

Returned(op) == ret.op = op /\ ret.exc = None

\* some enrollment embedding differs in length from the probe
Mismatch(probe, enrollment) == \E i \in 1..Len(enrollment) : Len(enrollment[i]) # Len(probe)

\* the thresholds the call recorded in ret resolved, by the store's own rules
ResolvedConfig == get_threshold_config(ret.environment, thresholdDocs, osEnviron, ret.dbOk)

C2_BinaryUserDecision ==
    Returned("verify_speaker") =>
        /\ ret.decision.decision \in {"OWNER", "OTHER"}
        /\ ret.decision.internalState \in {"OWNER", "UNCERTAIN", "OTHER"}
        /\ ret.decision.decision = "OWNER" <=> ret.decision.internalState = "OWNER"

C2_Witness ==
    /\ Returned("verify_speaker")
    /\ ret.decision.internalState = "UNCERTAIN"
    /\ ret.decision.decision = "OTHER"

\* C3 (as claimed): for a non-empty enrollment set whose embeddings all have the probe's
\* length, and thresholds that resolve, verify_speaker returns a decision; when no similarity
\* is positive the decision is OTHER internally and for the user.
C3_ReturnsDecisionWithoutMismatch ==
    (/\ ret.op = "verify_speaker"
     /\ ret.enrollment # <<>>
     /\ ~Mismatch(ret.probe, ret.enrollment)
     /\ ResolvedConfig.exc = None)
    => /\ ret.exc = None
       /\ ret.decision.maxSimilarity <= 0 =>
              ret.decision.decision = "OTHER" /\ ret.decision.internalState = "OTHER"

\* C4: when an enrollment embedding, at whatever position, differs in length from the probe,
\* verify_speaker fails with the dimension error, builds no decision and records no observation.
C4_MismatchFails ==
    (ret.op = "verify_speaker" /\ Mismatch(ret.probe, ret.enrollment))
    => /\ ret.exc = "ValueError"
       /\ ret.msg = DimensionMsg
       /\ ret.decision = NoDecision
       /\ userLog = EmptyUserLog
       /\ globalLog = <<>>

\* the offending embedding is the last of three, behind two that match; a uid and a working sink
C4_Witness ==
    /\ ret.op = "verify_speaker"
    /\ ret.exc = "ValueError"
    /\ Len(ret.enrollment) = 3
    /\ Len(ret.enrollment[1]) = Len(ret.probe)
    /\ Len(ret.enrollment[2]) = Len(ret.probe)
    /\ Len(ret.enrollment[3]) # Len(ret.probe)
    /\ ret.uid = "u1"
    /\ ret.sink = "ok"

\* C5 (as claimed): a dimension mismatch never becomes a user-facing OWNER, neither in the
\* result of verify_session_audio nor in the chunk loop's decision for the chunk.
C5_MismatchNeverOwner ==
    /\ (/\ ret.op = "verify_session_audio"
        /\ ret.extracted.exc = None
        /\ Mismatch(ret.extracted.embedding, ret.enrollment))
       => ~(ret.exc = None /\ ret.result.decision = "OWNER")
    /\ (/\ ret.op = "verify_chunk_step"
        /\ ret.extracted.exc = None
        /\ Mismatch(ret.extracted.embedding, ret.enrollment))
       => ret.chunk_decision # "OWNER"

\* C6: whatever the sink does, verify_speaker gives the outcome (decision or error) it gives
\* when the sink works, and log_similarity_score raises nothing.
C6_SinkFailureContained ==
    /\ ret.op = "verify_speaker" =>
          \A sink \in SinkOutcomes :
              \E r \in {verify_speaker(ret.probe, ret.enrollment, ret.environment, ret.uid,
                                       thresholdDocs, osEnviron, ret.dbOk, sink,
                                       EmptyUserLog, <<>>)} :
                  r.exc = ret.exc /\ r.msg = ret.msg /\ r.decision = ret.decision
    /\ ret.op = "log_similarity_score" => ret.exc = None

\* the per-user write fails, nothing is recorded, and the decision is returned all the same
C6_Witness ==
    /\ Returned("verify_speaker")
    /\ ret.uid = "u1"
    /\ ret.sink = "user_add_fails"
    /\ ret.decision.decision = "OWNER"
    /\ globalLog = <<>>
    /\ userLog = EmptyUserLog

\* the environment a returned call resolved its thresholds for
ResolvedEnvironment ==
    IF Truthy(ret.environment) THEN ret.environment ELSE DEFAULT_ENVIRONMENT(osEnviron)

\* the store with a persisted config for env that keeps owner and sets uncertain
WithUncertain(docs, env, owner, uncertain) ==
    [e \in DOMAIN docs |->
        IF e = env
        THEN [exists |-> TRUE, environment |-> env, ownerThreshold |-> owner,
              uncertainThreshold |-> uncertain, notes |-> "alternative"]
        ELSE docs[e]]

UncertainAlternatives == {0, 600, 800, 960, 1000}

\* the same call as in ret, with the uncertain threshold of the store set to u
WithUncertainThreshold(u) ==
    verify_speaker(ret.probe, ret.enrollment, ret.environment, ret.uid,
                   WithUncertain(thresholdDocs, ResolvedEnvironment,
                                 Used(ret.decision, "ownerThreshold"), u),
                   osEnviron, TRUE, ret.sink, EmptyUserLog, <<>>)

\* C7: a call that differs from a returned call only in the uncertain threshold returns too,
\* with the same user-facing decision.
C7_UncertainThresholdInvisible ==
    Returned("verify_speaker") =>
        \A u \in UncertainAlternatives :
            \E r \in {WithUncertainThreshold(u)} :
                r.exc = None /\ r.decision.decision = ret.decision.decision

\* an UNCERTAIN decision that another uncertain threshold turns into internal OTHER
C7_Witness ==
    /\ Returned("verify_speaker")
    /\ ret.decision.internalState = "UNCERTAIN"
    /\ \E u \in UncertainAlternatives :
           WithUncertainThreshold(u).decision.internalState = "OTHER"

PersistedDoc ==
    IF ResolvedEnvironment \in DOMAIN thresholdDocs THEN thresholdDocs[ResolvedEnvironment]
    ELSE NoDoc

PersistedReadable == ret.dbOk /\ PersistedDoc.exists /\ ThresholdConfigValid(PersistedDoc)

\* the per-environment variables of the resolved environment (the model sets them for dev)
EnvOwnerVar ==
    IF ResolvedEnvironment = "dev" THEN osEnviron.VERIFICATION_OWNER_THRESHOLD_DEV ELSE Unset
EnvUncertainVar ==
    IF ResolvedEnvironment = "dev" THEN osEnviron.VERIFICATION_UNCERTAIN_THRESHOLD_DEV ELSE Unset

\* the first value of a sequence of variable values that is set
RECURSIVE FirstSet(_)
FirstSet(values) ==
    IF Len(values) = 1 \/ Head(values) # Unset THEN Head(values) ELSE FirstSet(Tail(values))

C10_FallbackNeverFails ==
    (/\ ret.op = "get_threshold_config"
     /\ ~PersistedReadable
     /\ osEnviron = PlainEnviron)
    => /\ ret.exc = None
       /\ ret.cfg.ownerThreshold = 750
       /\ ret.cfg.uncertainThreshold = 600

(***************************************************************************)
(* C11, C12: the threshold store, under SpecThreshold                      *)
(***************************************************************************)
\* C11 (as claimed): every config update_threshold_config has stored and every config
\* get_threshold_config returns has ownerThreshold >= uncertainThreshold.
C11_OwnerAtLeastUncertain ==
    /\ (ret.op = "update_threshold_config" /\ ret.exc = None) =>
           thresholdDocs[ret.config.environment].ownerThreshold
               >= thresholdDocs[ret.config.environment].uncertainThreshold
    /\ Returned("get_threshold_config") =>
           ret.cfg.ownerThreshold >= ret.cfg.uncertainThreshold

\* the whole documents the store of environment e can hold: the ones it started with and the
\* ones an update wrote
WholeDocs(e) ==
    {NoDoc, CalibratedDoc(e), InvertedDoc(e), MalformedDoc(e)}
        \cup {ConfigToDoc(c) : c \in {u \in UpdateConfigs : u.environment = e}}

\* C12: an update that succeeds replaces the document of its environment by the whole new
\* config and leaves every other environment alone, an update that fails changes nothing, and
\* a get_threshold_config that reads a persisted config returns one stored document whole:
\* every stored document and every persisted config returned is a config as it was written.
C12_UpdateAtomic ==
    /\ \A e \in DOMAIN thresholdDocs : thresholdDocs[e] \in WholeDocs(e)
    /\ (ret.op = "update_threshold_config" /\ ret.exc = None) =>
           thresholdDocs[ret.config.environment] = ConfigToDoc(ret.config)
    /\ (Returned("get_threshold_config") /\ PersistedReadable) =>
           /\ ConfigToDoc(ret.cfg) = thresholdDocs[ResolvedEnvironment]
           /\ ConfigToDoc(ret.cfg) \in WholeDocs(ResolvedEnvironment)

\* a get_threshold_config after an update of dev returned the new config whole
C12_Witness ==
    /\ Returned("get_threshold_config")
    /\ ResolvedEnvironment = "dev"
    /\ ret.dbOk
    /\ ret.cfg = [environment |-> "dev", ownerThreshold |-> 900, uncertainThreshold |-> 700,
                  notes |-> "update"]

(***************************************************************************)
(* C13: the observation log, under Spec                                    *)
(***************************************************************************)
\* C13 (as claimed): after a log_similarity_score call, completed or failed part-way, the
\* observation is in the per-user log and in the global log, or in neither.
C13_BothLogsOrNeither ==
    \A u \in Uids : Len(userLog[u]) = Len(globalLog)

(***************************************************************************)
(* Audio chunker (services/audio_chunking_service.py).                     *)
(*                                                                         *)
(* Seconds are fixed-point numbers in units of 1/10000 s (12.0 s is        *)
(* 120000); positions inside the audio are whole milliseconds, as pydub    *)
(* counts them.  The content of an audio buffer is the sequence of the     *)
(* segments <<source, from_ms, to_ms>> it is made of.                      *)
(***************************************************************************)
UnitsPerMs == 10                                \* 1 ms in units of 1/10000 s

DEFAULT_CHUNK_DURATION_SECONDS == 120000        \* 12.0 s
CHUNK_OVERLAP_SECONDS == 5000                   \* 0.5 s
MIN_CHUNK_MS == 1000                            \* 'if len(chunk_audio) < 1000'
MAX_CHUNK_INDEX == 1000                         \* 'if chunk_index > 1000'
SILENCE_MS == 100                               \* AudioSegment.silent(duration=100)

\* int(seconds * 1000): truncation to whole milliseconds (arguments are not negative)
IntMs(seconds) == seconds \div UnitsPerMs

\* ms / 1000.0
Seconds(ms) == ms * UnitsPerMs

Min(a, b) == IF a <= b THEN a ELSE b

\* line 87
ChunkEndMs(current_start_ms, chunk_duration_ms, total_duration_ms) ==
    Min(current_start_ms + chunk_duration_ms, total_duration_ms)

\* line 90, len(audio[start:end]) for 0 <= start and end <= len(audio)
SliceLen(start_ms, end_ms) == IF end_ms > start_ms THEN end_ms - start_ms ELSE 0

\* line 93 with a minimum of 2 s
TooShort_2s(len_ms) == len_ms < 2 * MIN_CHUNK_MS

\* line 93
TooShort(len_ms) == len_ms < MIN_CHUNK_MS

\* line 115 without the overlap
NextStartMs_no_overlap(chunk_end_ms, overlap_ms) == chunk_end_ms

\* line 115
NextStartMs(chunk_end_ms, overlap_ms) == chunk_end_ms - overlap_ms

\* line 119
TooManyChunks(chunk_index) == chunk_index > MAX_CHUNK_INDEX

\* lines 97-112: the chunk file and its AudioChunk
AudioChunk(chunk_index, current_start_ms, chunk_end_ms) ==
    [path |-> <<"chunk", chunk_index>>,
     start_time |-> Seconds(current_start_ms),
     end_time |-> Seconds(chunk_end_ms),
     index |-> chunk_index,
     duration |-> Seconds(chunk_end_ms - current_start_ms)]

\* lines 65-83 of split_audio: the state on entry to the loop
split_audio_enter(total_duration_ms, chunk_duration, overlap) ==
    [pc |-> "loop", total_duration_ms |-> total_duration_ms,
     chunk_duration |-> chunk_duration, overlap |-> overlap,
     chunk_duration_ms |-> IntMs(chunk_duration), overlap_ms |-> IntMs(overlap),
     current_start_ms |-> 0, chunk_index |-> 0, chunks |-> <<>>]

\* lines 85-121 of split_audio: the loop test and one pass through the loop body
split_audio_iteration(s) ==
    LET emit(chunk_end_ms) ==
            IF TooShort(SliceLen(s.current_start_ms, chunk_end_ms))
            THEN [s EXCEPT !.pc = "done"]
            ELSE [s EXCEPT !.chunks = Append(@, AudioChunk(s.chunk_index, s.current_start_ms,
                                                           chunk_end_ms)),
                           !.current_start_ms = NextStartMs(chunk_end_ms, s.overlap_ms),
                           !.chunk_index = @ + 1,
                           !.pc = IF TooManyChunks(s.chunk_index + 1) THEN "done" ELSE "loop"]
    IN  IF ~(s.current_start_ms < s.total_duration_ms) THEN [s EXCEPT !.pc = "done"]
        ELSE emit(ChunkEndMs(s.current_start_ms, s.chunk_duration_ms, s.total_duration_ms))

\* durations of the source audio in ms (len(audio))
Durations ==
    {0, 300, 500, 800, 999, 1000, 1001, 5000, 11999, 12000, 12300, 12499, 12500, 12600,
     23000, 23499, 23500, 23600, 24000, 24400, 24500, 35000, 36000, 47000}

\* durations long enough for 1000 chunks of 12 s and more
LongDurations == {11488500, 11500400, 11501000, 12000000}

\* (total_duration_ms, chunk_duration, overlap) of the split_audio calls
SplitInputs ==
    {<<d, DEFAULT_CHUNK_DURATION_SECONDS, CHUNK_OVERLAP_SECONDS>> : d \in Durations \cup LongDurations}
        \cup {<<d, 100000, 4995>> : d \in Durations}
        \cup {<<d, 150000, 0>> : d \in Durations}
        \cup {<<3000, 10000, 10000>>, <<3000, 20000, 10000>>}

SplitAudio(total_duration_ms, chunk_duration, overlap) ==
    /\ split.pc = "idle"
    /\ split' = split_audio_enter(total_duration_ms, chunk_duration, overlap)
    /\ UNCHANGED <<thresholdDocs, osEnviron, userLog, globalLog, ret, job, apiVars>>

SplitAudioIteration ==
    /\ split.pc = "loop"
    /\ split' = split_audio_iteration(split)
    /\ UNCHANGED <<thresholdDocs, osEnviron, userLog, globalLog, ret, job, apiVars>>

(***************************************************************************)
(* reconstruct_audio_from_chunks, called on the chunks split_audio made    *)
(***************************************************************************)
MaxReconstruct == 4      \* most chunks handed to reconstruct_audio_from_chunks

DecisionStrings == {"OWNER", "UNCERTAIN", "OTHER", "SKIPPED"}

\* AudioSegment.from_file(chunk.path): the chunk file holds audio[start:end] of the source
ChunkAudio(chunk) ==
    <<[source |-> "session", from_ms |-> chunk.start_time \div UnitsPerMs,
       to_ms |-> chunk.end_time \div UnitsPerMs]>>

\* AudioSegment.silent(duration=100)
SilentAudio == <<[source |-> "silence", from_ms |-> 0, to_ms |-> SILENCE_MS]>>

\* line 186 with SKIPPED chunks kept as well
Included_with_skipped(decision, include_uncertain) ==
    decision \in {"OWNER", "SKIPPED"} \/ (decision = "UNCERTAIN" /\ include_uncertain)

\* line 186
Included(decision, include_uncertain) ==
    decision = "OWNER" \/ (decision = "UNCERTAIN" /\ include_uncertain)

\* lines 184-187: the loop over zip(chunks, decisions)
RECURSIVE IncludedChunks(_, _, _, _, _)
IncludedChunks(chunks, decisions, include_uncertain, i, acc) ==
    IF i > Len(chunks) \/ i > Len(decisions) THEN acc
    ELSE IncludedChunks(chunks, decisions, include_uncertain, i + 1,
                        IF Included(decisions[i], include_uncertain)
                        THEN Append(acc, chunks[i]) ELSE acc)

\* lines 196-199: reconstructed += chunk_audio for each included chunk
RECURSIVE Concatenate(_, _, _)
Concatenate(included_chunks, i, reconstructed) ==
    IF i > Len(included_chunks) THEN reconstructed
    ELSE Concatenate(included_chunks, i + 1, reconstructed \o ChunkAudio(included_chunks[i]))

\* reconstruct_audio_from_chunks(chunks, decisions, output_path, include_uncertain): the
\* exception it raises and the audio it writes to output_path
reconstruct_audio_from_chunks(chunks, decisions, include_uncertain) ==
    LET export(included_chunks) ==
            IF included_chunks = <<>> THEN [exc |-> None, output |-> SilentAudio]
            ELSE [exc |-> None, output |-> Concatenate(included_chunks, 1, <<>>)]
    IN  IF Len(chunks) # Len(decisions) THEN [exc |-> "ValueError", output |-> <<>>]
        ELSE export(IncludedChunks(chunks, decisions, include_uncertain, 1, <<>>))

\* the decision lists handed over for n chunks: one decision per chunk, or one too few
DecisionLists(n) ==
    {d \in SeqsUpTo(DecisionStrings, MaxReconstruct) : Len(d) = n \/ Len(d) = n - 1}

ReconstructAudio(decisions, include_uncertain) ==
    /\ split.pc = "done"
    /\ \E r \in {reconstruct_audio_from_chunks(split.chunks, decisions, include_uncertain)} :
           ret' = [op |-> "reconstruct_audio_from_chunks", decisions |-> decisions,
                   include_uncertain |-> include_uncertain, exc |-> r.exc,
                   output |-> r.output]
    /\ UNCHANGED <<thresholdDocs, osEnviron, userLog, globalLog, split, job, apiVars>>

InitChunking ==
    /\ thresholdDocs = [e \in EnvNames |-> NoDoc]
    /\ osEnviron = PlainEnviron
    /\ userLog = EmptyUserLog
    /\ globalLog = <<>>
    /\ ret = NoRet
    /\ split = NoSplit
    /\ job = NoJob
    /\ NoApiState

NextChunking ==
    \/ \E args \in SplitInputs : SplitAudio(args[1], args[2], args[3])
    \/ SplitAudioIteration
    \/ /\ split.pc = "done"
       /\ Len(split.chunks) <= MaxReconstruct
       /\ \/ /\ Idle
             /\ \E decisions \in DecisionLists(Len(split.chunks)),
                   include_uncertain \in BOOLEAN :
                    ReconstructAudio(decisions, include_uncertain)
          \/ /\ ret.op = "reconstruct_audio_from_chunks"
             /\ ReconstructAudio(ret.decisions, ret.include_uncertain)   \* the call repeated

SpecChunking == InitChunking /\ [][NextChunking]_vars

(***************************************************************************)
(* C14..C16: split_audio, under SpecChunking                               *)
(***************************************************************************)
\* ceil(a / b) for b > 0
CeilDiv(a, b) == -((-a) \div b)

\* split_audio returned from a call with the default chunk duration and overlap
SplitDefaultDone ==
    /\ split.pc = "done"
    /\ split.chunk_duration = DEFAULT_CHUNK_DURATION_SECONDS
    /\ split.overlap = CHUNK_OVERLAP_SECONDS

\* ceil((D - O) / (C - O)) of the call in split
ClaimedChunks ==
    CeilDiv(Seconds(split.total_duration_ms) - split.overlap,
            split.chunk_duration - split.overlap)

LastSlice(n) ==
    Seconds(split.total_duration_ms) - (n - 1) * (split.chunk_duration - split.overlap)

SplitDoneBelowCap ==
    /\ split.pc = "done"
    /\ Len(split.chunks) >= 1
    /\ Len(split.chunks) <= 1000

\* C15 (as claimed): when split_audio emits at least one chunk and the cap was not hit, the
\* end_time of the final chunk equals the total duration of the source audio.
C15_FinalChunkEndsAtDuration ==
    SplitDoneBelowCap =>
        split.chunks[Len(split.chunks)].end_time = Seconds(split.total_duration_ms)

\* C15 (amended): when split_audio emits at least one chunk and the cap was not hit, the
\* end_time of the final chunk equals the total duration of the source audio, or, when a
\* trailing slice shorter than 1 s was dropped, lies before it by less than 1 s minus the
\* overlap.
C15_FinalChunkEndsNearDuration ==
    SplitDoneBelowCap =>
        \E gap \in {Seconds(split.total_duration_ms)
                        - split.chunks[Len(split.chunks)].end_time} :
            \/ gap = 0
            \/ gap > 0 /\ gap < Seconds(1000 - split.overlap_ms)

\* the final chunk ends 0.3 s before the end of the audio
C15_Witness ==
    /\ SplitDoneBelowCap
    /\ split.total_duration_ms = 12300
    /\ split.chunks[Len(split.chunks)].end_time = Seconds(12000)

\* C16 (as claimed): the list split_audio returns never holds more than 1000 chunks, for any
\* duration, chunk duration and overlap.
C16_AtMostThousandChunks ==
    split.pc = "done" => Len(split.chunks) <= 1000

(***************************************************************************)
(* C17: reconstruct_audio_from_chunks, under SpecChunking                  *)
(***************************************************************************)
\* the indexes of the chunks the call recorded in ret has to keep
QualifyingChunks ==
    {i \in 1..Len(split.chunks) :
        \/ ret.decisions[i] = "OWNER"
        \/ ret.decisions[i] = "UNCERTAIN" /\ ret.include_uncertain}

\* the k-th qualifying chunk in original order
Qualifying(k) ==
    CHOOSE i \in QualifyingChunks : Cardinality({j \in QualifyingChunks : j <= i}) = k

\* the duration of an audio buffer in ms
RECURSIVE AudioMs(_)
AudioMs(audio) ==
    IF audio = <<>> THEN 0 ELSE (Head(audio).to_ms - Head(audio).from_ms) + AudioMs(Tail(audio))

\* the sum of the durations of a set of chunks of split, in seconds
RECURSIVE DurationOf(_)
DurationOf(indexes) ==
    IF indexes = {} THEN 0
    ELSE LET i == CHOOSE j \in indexes : TRUE
         IN  split.chunks[i].duration + DurationOf(indexes \ {i})

\* C17: the audio reconstruct_audio_from_chunks writes is the concatenation, in original
\* chunk order, of the audio of every chunk decided OWNER (and UNCERTAIN when
\* include_uncertain) and of no other chunk, its duration is the sum of their durations, it
\* is determined by the chunks, the decisions and include_uncertain alone, and it is 100 ms
\* of silence when no chunk qualifies.
C17_ReconstructKeepsOwnerChunksInOrder ==
    Returned("reconstruct_audio_from_chunks") =>
        IF QualifyingChunks = {}
        THEN ret.output # <<>> /\ ret.output = SilentAudio /\ AudioMs(ret.output) = 100
        ELSE /\ Len(ret.output) = Cardinality(QualifyingChunks)
             /\ \A k \in 1..Len(ret.output) :
                    /\ ret.output[k].source = "session"
                    /\ Seconds(ret.output[k].from_ms) = split.chunks[Qualifying(k)].start_time
                    /\ Seconds(ret.output[k].to_ms) = split.chunks[Qualifying(k)].end_time
             /\ Seconds(AudioMs(ret.output)) = DurationOf(QualifyingChunks)

\* four chunks decided OWNER, OTHER, OWNER, OWNER without the uncertain ones: three are kept
C17_Witness ==
    /\ Returned("reconstruct_audio_from_chunks")
    /\ Len(split.chunks) = 4
    /\ ret.decisions = <<"OWNER", "OTHER", "OWNER", "OWNER">>
    /\ ~ret.include_uncertain
    /\ Len(ret.output) = 3
    /\ ret.output[2].from_ms = 23000

(***************************************************************************)
(* process_audio_analysis (api/analysis.py): the background task of one    *)
(* session, in the steps between which it does I/O                         *)
(***************************************************************************)
MaxChunks == 3           \* most chunks split_audio returns to the task

\* cleanup_chunks(chunks): the chunk files left on disk
cleanup_chunks(chunks, files) == files \ {chunks[i].path : i \in 1..Len(chunks)}

\* the chunks split_audio(audio_url, chunk_duration=12.0) returns for n full slices
SessionChunks(n) ==
    [i \in 1..n |-> AudioChunk(i - 1, (i - 1) * 11500, (i - 1) * 11500 + 12000)]

\* what the task finds before it verifies: lines 110-141
Prechecks == {"ok", "no_audio_url", "analysis_disabled", "audio_file_missing"}

\* enrollmentEmbeddings of the voice profile; <<>> when no voice is registered
ProfileEmbeddings == {<<>>, <<<<3, 4>>>>, <<<<3, -4>>>>, <<<<4, 3>>, <<3, 4>>>>}

\* extract_speaker_embedding on a chunk file
ChunkExtractions ==
    {Extracted(<<3, 4>>), Extracted(<<0, 0>>), Extracted(<<5>>), ExtractionFailed("boom")}

\* lines 96-217 and 263-276: status PROCESSING, the checks of the session, the voice profile
\* and split_audio; splitOk = FALSE when split_audio raises
analysis_begin(precheck, enrollment_embeddings, splitOk, n) ==
    LET base == [pc |-> "done", analysisStatus |-> "FAILED", errorReason |-> "",
                 enrollment_embeddings |-> enrollment_embeddings,
                 verification_enabled |-> FALSE, verification_result |-> None,
                 chunks |-> <<>>, files |-> {}, chunk_verifications |-> <<>>,
                 chunk_decisions |-> <<>>, owner_count |-> 0,
                 \* history: the calls of cleanup_chunks made, and what
                 \* extract_speaker_embedding gave for each chunk verified
                 cleanups |-> 0, extractions |-> <<>>]
        split_into(chunks) ==
            IF chunks = <<>>
            THEN [base EXCEPT !.pc = "stt", !.analysisStatus = "PROCESSING",
                              !.verification_enabled = TRUE, !.verification_result = "OWNER"]
            ELSE [base EXCEPT !.pc = "loop", !.analysisStatus = "PROCESSING",
                              !.verification_enabled = TRUE, !.chunks = chunks,
                              !.files = {chunks[i].path : i \in 1..Len(chunks)}]
    IN  CASE precheck = "no_audio_url" ->
                 [base EXCEPT !.errorReason = "No audio file found for session"]
          [] precheck = "analysis_disabled" ->
                 [base EXCEPT !.errorReason = "Data analysis disabled in privacy settings"]
          [] precheck = "audio_file_missing" ->
                 [base EXCEPT !.errorReason = "Audio file not found"]
          [] OTHER ->
                 IF enrollment_embeddings = <<>>
                 THEN [base EXCEPT !.pc = "stt", !.analysisStatus = "PROCESSING",
                                   !.verification_result = "NOT_APPLICABLE"]
                 ELSE split_into(IF splitOk THEN SessionChunks(n) ELSE <<>>)

\* lines 254-258: owner_ratio >= 0.5
AggregateResult(owner_count, total) == IF 2 * owner_count >= total THEN "OWNER" ELSE "OTHER"

\* lines 219-258: one pass of 'for chunk in chunks', and the aggregation after the last one
analysis_verify_chunk(j, step) ==
    LET after(decisions, owner_count) ==
            [j EXCEPT !.chunk_verifications = Append(@, step.cv),
                      !.chunk_decisions = decisions,
                      !.owner_count = owner_count,
                      !.verification_result =
                          IF Len(decisions) = Len(j.chunks)
                          THEN AggregateResult(owner_count, Len(decisions)) ELSE @,
                      !.pc = IF Len(decisions) = Len(j.chunks) THEN "stt" ELSE "loop"]
    IN  after(Append(j.chunk_decisions, step.chunk_decision),
              j.owner_count + (IF step.chunk_decision = "OWNER" THEN 1 ELSE 0))

\* what transcribe_audio gives: it raises, or returns no text, or returns text
SttOutcomes == {"raises", "empty", "text"}

\* lines 301-340: transcription; updateOk = FALSE when session_ref.update raises, which
\* the handler at lines 475-483 turns into status FAILED without cleanup
analysis_transcribe(j, stt, updateOk) ==
    LET cleaned == [j EXCEPT !.files = IF j.chunks # <<>> THEN cleanup_chunks(j.chunks, @) ELSE @,
                             !.cleanups = IF j.chunks # <<>> THEN @ + 1 ELSE @,
                             !.pc = "done"]
    IN  CASE stt = "text" -> [j EXCEPT !.pc = "finish"]
          [] ~updateOk ->
                 [j EXCEPT !.pc = "done", !.analysisStatus = "FAILED",
                           !.errorReason = "Analysis failed"]
          [] stt = "raises" ->
                 [cleaned EXCEPT !.analysisStatus = "FAILED",
                                 !.errorReason = "Speech-to-text service unavailable"]
          [] OTHER -> [cleaned EXCEPT !.analysisStatus = "COMPLETED"]

\* how lines 342-386 end: the update of the stt metadata raises, analyze_speech raises, or
\* generate_session_summary(analysis, transcript) is reached, where the name transcript is
\* bound nowhere and the call raises NameError
FinishOutcomes == {"stt_update_raises", "analyze_speech_raises", "summary_name_error"}

\* lines 342-386 and the handler at lines 475-483: every outcome is an exception, which
\* sets status FAILED and returns; lines 388-464 are never reached
analysis_finish(j, outcome) ==
    [j EXCEPT !.pc = "done", !.analysisStatus = "FAILED",
              !.errorReason = "Analysis failed: " \o outcome]
AnalysisBegin(precheck, enrollment_embeddings, splitOk, n) ==
    /\ job.pc = "idle"
    /\ job' = analysis_begin(precheck, enrollment_embeddings, splitOk, n)
    /\ UNCHANGED <<thresholdDocs, osEnviron, userLog, globalLog, ret, split, apiVars>>

AnalysisVerifyChunk(extracted) ==
    /\ job.pc = "loop"
    /\ \E step \in {verify_chunk_step(extracted, job.chunks[Len(job.chunk_verifications) + 1],
                                     job.enrollment_embeddings, "u1", thresholdDocs, osEnviron,
                                     TRUE, "ok", userLog, globalLog)} :
           /\ job' = [analysis_verify_chunk(job, step) EXCEPT
                          !.extractions = Append(@, extracted)]
           /\ userLog' = step.userLog
           /\ globalLog' = step.globalLog
    /\ UNCHANGED <<thresholdDocs, osEnviron, ret, split, apiVars>>

AnalysisTranscribe(stt, updateOk) ==
    /\ job.pc = "stt"
    /\ job' = analysis_transcribe(job, stt, updateOk)
    /\ UNCHANGED <<thresholdDocs, osEnviron, userLog, globalLog, ret, split, apiVars>>

AnalysisFinish(outcome) ==
    /\ job.pc = "finish"
    /\ job' = analysis_finish(job, outcome)
    /\ UNCHANGED <<thresholdDocs, osEnviron, userLog, globalLog, ret, split, apiVars>>

InitAnalysis ==
    /\ thresholdDocs \in VerifyDocs
    /\ osEnviron = PlainEnviron
    /\ userLog = EmptyUserLog
    /\ globalLog = <<>>
    /\ ret = NoRet
    /\ split = NoSplit
    /\ job = NoJob
    /\ NoApiState

NextAnalysis ==
    \/ \E precheck \in Prechecks, enrollment_embeddings \in ProfileEmbeddings,
          splitOk \in BOOLEAN, n \in 0..MaxChunks :
           AnalysisBegin(precheck, enrollment_embeddings, splitOk, n)
    \/ \E extracted \in ChunkExtractions : AnalysisVerifyChunk(extracted)
    \/ \E stt \in SttOutcomes, updateOk \in BOOLEAN : AnalysisTranscribe(stt, updateOk)
    \/ \E outcome \in FinishOutcomes : AnalysisFinish(outcome)

SpecAnalysis == InitAnalysis /\ [][NextAnalysis]_vars

(***************************************************************************)
(* C18, C19: process_audio_analysis, under SpecAnalysis                    *)
(***************************************************************************)
\* the chunk loop of the task is over and had chunks to verify
ChunkLoopOver == job.pc \in {"stt", "finish", "done"} /\ job.chunks # <<>>

\* the state the decision engine computes for a probe that every enrollment embedding can be
\* compared with: the three-way split of the largest cosine similarity under the thresholds
\* of the default environment
ComputedState(probe, enrollment) ==
    LET classify(sims, cfg) ==
            ThreeWay(SeqMax(sims), cfg.ownerThreshold, cfg.uncertainThreshold)
    IN  classify(Similarities(probe, enrollment, 1, <<>>).sims,
                 get_threshold_config(None, thresholdDocs, osEnviron, TRUE).cfg)

\* C18 (as claimed): after the chunk loop every chunk has exactly one ChunkVerification, in
\* chunk order; a chunk whose embedding extraction failed carries internal state SKIPPED and
\* a chunk whose embedding was extracted and is comparable with the enrollment carries the
\* decision computed for it.
C18_EveryChunkVerifiedInOrder ==
    ChunkLoopOver =>
        /\ Len(job.chunk_verifications) = Len(job.chunks)
        /\ \A i \in 1..Len(job.chunks) :
               /\ job.chunk_verifications[i].chunkIndex = job.chunks[i].index
               /\ job.chunk_verifications[i].startTime = job.chunks[i].start_time
               /\ job.chunk_verifications[i].endTime = job.chunks[i].end_time
               /\ job.extractions[i].exc # None =>
                      job.chunk_verifications[i].decision.internalState = "SKIPPED"
               /\ (/\ job.extractions[i].exc = None
                   /\ ~Mismatch(job.extractions[i].embedding, job.enrollment_embeddings)) =>
                      job.chunk_verifications[i].decision.internalState =
                          ComputedState(job.extractions[i].embedding, job.enrollment_embeddings)

\* C19 (as claimed): once split_audio has created chunk files, every exit of
\* process_audio_analysis has called cleanup_chunks exactly once and left no chunk file.
C19_ChunksReleasedOnEveryExit ==
    (job.pc = "done" /\ job.chunks # <<>>) => (job.cleanups = 1 /\ job.files = {})

(***************************************************************************)
(* Audio quality validator (services/audio_quality_service.py).            *)
(* Durations are in ms, ratios in units of 1/1000, the RMS amplitude and   *)
(* the sample rate are integers.  The thresholds are the defaults the      *)
(* module reads when no AUDIO_* variable is set.                           *)
(***************************************************************************)
MIN_DURATION_SECONDS == 4000         \* 4.0 s
MAX_SILENCE_RATIO == 300             \* 0.30
MIN_RMS_THRESHOLD == 500             \* 500.0
MAX_CLIPPING_RATIO == 50             \* 0.05
EXPECTED_SAMPLE_RATE == 16000
SAMPLE_RATE_TOLERANCE == 1000

\* class RejectionReason, in the order validate_audio_quality tests them
RejectionReasons ==
    <<"TOO_SHORT", "TOO_SILENT", "TOO_QUIET", "TOO_MUCH_CLIPPING", "INVALID_SAMPLE_RATE",
      "INVALID_CHANNELS">>

\* validate_audio_quality stopping at the first check that fails
validate_audio_quality_first_failure(audio) ==
    LET fail(reason) == [status |-> "FAIL", reasons |-> <<reason>>]
    IN  CASE ~audio.loads -> fail("LOAD_ERROR")
          [] audio.duration_ms < MIN_DURATION_SECONDS -> fail("TOO_SHORT")
          [] audio.silence_ratio > MAX_SILENCE_RATIO -> fail("TOO_SILENT")
          [] audio.rms < MIN_RMS_THRESHOLD -> fail("TOO_QUIET")
          [] audio.clipping_ratio > MAX_CLIPPING_RATIO -> fail("TOO_MUCH_CLIPPING")
          [] Abs(audio.sample_rate - EXPECTED_SAMPLE_RATE) > SAMPLE_RATE_TOLERANCE ->
                 fail("INVALID_SAMPLE_RATE")
          [] audio.channels # 1 -> fail("INVALID_CHANNELS")
          [] OTHER -> [status |-> "PASS", reasons |-> <<>>]

\* validate_audio_quality(audio_path): status and reasons of the AudioQualityResult; audio is
\* what AudioSegment.from_file and the metric functions give for the file
validate_audio_quality(audio) ==
    LET result(reasons) ==
            [status |-> IF reasons # <<>> THEN "FAIL" ELSE "PASS", reasons |-> reasons]
        check(reasons, fails, reason) == IF fails THEN Append(reasons, reason) ELSE reasons
        channels(reasons) == result(check(reasons, audio.channels # 1, "INVALID_CHANNELS"))
        sample_rate(reasons) ==
            channels(check(reasons,
                           Abs(audio.sample_rate - EXPECTED_SAMPLE_RATE) > SAMPLE_RATE_TOLERANCE,
                           "INVALID_SAMPLE_RATE"))
        clipping(reasons) ==
            sample_rate(check(reasons, audio.clipping_ratio > MAX_CLIPPING_RATIO,
                              "TOO_MUCH_CLIPPING"))
        loudness(reasons) == clipping(check(reasons, audio.rms < MIN_RMS_THRESHOLD, "TOO_QUIET"))
        silence(reasons) ==
            loudness(check(reasons, audio.silence_ratio > MAX_SILENCE_RATIO, "TOO_SILENT"))
        duration(reasons) ==
            silence(check(reasons, audio.duration_ms < MIN_DURATION_SECONDS, "TOO_SHORT"))
    IN  IF ~audio.loads THEN [status |-> "FAIL", reasons |-> <<"LOAD_ERROR">>]
        ELSE duration(<<>>)

\* a file AudioSegment.from_file cannot decode
UnreadableAudio ==
    [loads |-> FALSE, duration_ms |-> 0, silence_ratio |-> 0, rms |-> 0, clipping_ratio |-> 0,
     sample_rate |-> 0, channels |-> 0]

\* the audio files validated: every metric on both sides of its threshold
QualityInputs ==
    [loads : {TRUE}, duration_ms : {3999, 4000}, silence_ratio : {300, 301}, rms : {499, 500},
     clipping_ratio : {50, 51}, sample_rate : {14999, 15000, 17000, 17001}, channels : {1, 2}]
        \cup {UnreadableAudio}

ValidateAudioQuality(audio) ==
    /\ \E r \in {validate_audio_quality(audio)} :
           ret' = [op |-> "validate_audio_quality", audio |-> audio, exc |-> None,
                   status |-> r.status, reasons |-> r.reasons]
    /\ UNCHANGED <<thresholdDocs, osEnviron, userLog, globalLog, split, job, apiVars>>

InitQuality ==
    /\ thresholdDocs = [e \in EnvNames |-> NoDoc]
    /\ osEnviron = PlainEnviron
    /\ userLog = EmptyUserLog
    /\ globalLog = <<>>
    /\ ret = NoRet
    /\ split = NoSplit
    /\ job = NoJob
    /\ NoApiState

NextQuality == \E audio \in QualityInputs : ValidateAudioQuality(audio)

SpecQuality == InitQuality /\ [][NextQuality]_vars

(***************************************************************************)
(* C20: validate_audio_quality, under SpecQuality                          *)
(***************************************************************************)
\* the check behind a reason code fails on the audio validated
CheckFails(reason) ==
    CASE reason = "TOO_SHORT" -> ret.audio.duration_ms < 4000
      [] reason = "TOO_SILENT" -> ret.audio.silence_ratio > 300
      [] reason = "TOO_QUIET" -> ret.audio.rms < 500
      [] reason = "TOO_MUCH_CLIPPING" -> ret.audio.clipping_ratio > 50
      [] reason = "INVALID_SAMPLE_RATE" ->
             ret.audio.sample_rate < 15000 \/ ret.audio.sample_rate > 17000
      [] reason = "INVALID_CHANNELS" -> ret.audio.channels # 1

\* C20: for audio that loads, reasons holds exactly the codes of the checks that fail, each
\* once, in the order TOO_SHORT, TOO_SILENT, TOO_QUIET, TOO_MUCH_CLIPPING,
\* INVALID_SAMPLE_RATE, INVALID_CHANNELS, whatever the other checks give; and status is PASS
\* if and only if reasons is empty.
C20_AllFailingChecksReported ==
    ret.op = "validate_audio_quality" =>
        /\ ret.audio.loads => ret.reasons = SelectSeq(RejectionReasons, CheckFails)
        /\ ret.status = "PASS" <=> ret.reasons = <<>>

\* all six checks fail on one file and all six codes are reported
C20_Witness ==
    /\ ret.op = "validate_audio_quality"
    /\ ret.audio.loads
    /\ ret.status = "FAIL"
    /\ ret.reasons = RejectionReasons

(***************************************************************************)
(* api/voice.py: /validate, /enroll and /verify.  One user (uid u1); the   *)
(* uploaded files have a filename, an audio content type and content, so   *)
(* the filename, extension and empty-file rejections are not taken.        *)
(* normalize_audio either writes the WAV file that is validated or fails   *)
(* and the original is validated: `audio' is the file that is validated.   *)
(***************************************************************************)
HTTP_200_OK == 200
HTTP_400_BAD_REQUEST == 400
HTTP_403_FORBIDDEN == 403
HTTP_404_NOT_FOUND == 404
HTTP_500_INTERNAL_SERVER_ERROR == 500

EnrollmentCount == 3     \* 'if len(audio_files) != 3'

\* POST /validate: validate_audio_file(audio_file)
validate_audio_file(audio) ==
    LET respond(quality_result) ==
            IF quality_result.status = "FAIL"
            THEN [status |-> HTTP_400_BAD_REQUEST, valid |-> FALSE, reasons |-> quality_result.reasons]
            ELSE [status |-> HTTP_200_OK, valid |-> TRUE, reasons |-> quality_result.reasons]
    IN  respond(validate_audio_quality(audio))

\* np.mean(embeddings, axis=0) in units of 1/len(embeddings): the component sums
RECURSIVE MeanEmbedding(_)
MeanEmbedding(embeddings) ==
    IF Len(embeddings) = 1 THEN Head(embeddings)
    ELSE [k \in 1..Len(Head(embeddings)) |-> Head(embeddings)[k] + MeanEmbedding(Tail(embeddings))[k]]

\* the result of the loop over the files: the HTTPException raised, or the embeddings
EnrollFailure(status, detail, reasons) == [status |-> status, detail |-> detail, reasons |-> reasons, embeddings |-> <<>>]

\* the per-file loop of enroll_voice without the quality gate: every clip is extracted
RECURSIVE EnrollFilesUngated(_, _, _)
EnrollFilesUngated(audio_files, i, embeddings) ==
    IF i > Len(audio_files)
    THEN [status |-> HTTP_200_OK, detail |-> "", reasons |-> <<>>, embeddings |-> embeddings]
    ELSE IF audio_files[i].extraction.exc # None
         THEN EnrollFailure(HTTP_500_INTERNAL_SERVER_ERROR, "extraction failed", <<>>)
         ELSE EnrollFilesUngated(audio_files, i + 1, Append(embeddings, audio_files[i].extraction.embedding))

\* the per-file loop of enroll_voice: validate_audio_quality, then extract_speaker_embedding
RECURSIVE EnrollFiles(_, _, _)
EnrollFiles(audio_files, i, embeddings) ==
    LET gate(quality_result) ==
            IF quality_result.status = "FAIL"
            THEN EnrollFailure(HTTP_400_BAD_REQUEST, "failed quality validation", quality_result.reasons)
            ELSE IF audio_files[i].extraction.exc # None
                 THEN EnrollFailure(HTTP_500_INTERNAL_SERVER_ERROR, "extraction failed", <<>>)
                 ELSE EnrollFiles(audio_files, i + 1, Append(embeddings, audio_files[i].extraction.embedding))
    IN  IF i > Len(audio_files)
        THEN [status |-> HTTP_200_OK, detail |-> "", reasons |-> <<>>, embeddings |-> embeddings]
        ELSE gate(validate_audio_quality(audio_files[i].audio))

\* the embeddings of one enrollment have one dimension
SameDimension(embeddings) == \A k \in 1..Len(embeddings) : Len(embeddings[k]) = Len(embeddings[1])

\* the profile a new user gets from doc_ref.set(profile_data, merge=True)
PendingProfile == [exists |-> TRUE, status |-> "PENDING", enrollmentEmbeddings |-> <<>>, voiceEmbedding |-> <<>>]

\* enroll_voice up to and including doc_ref.set(profile_data, merge=True): the response if
\* the call ends here, else the profile written by set and the update_data to write
enroll_voice(audio_files, profile, setOk) ==
    LET ended(status, detail, reasons) ==
            [pc |-> "done", status |-> status, detail |-> detail, reasons |-> reasons, profile |-> profile, update_data |-> <<>>]
        store(embeddings) ==
            IF ~setOk THEN ended(HTTP_500_INTERNAL_SERVER_ERROR, "Failed to enroll voice", <<>>)
            ELSE [pc |-> "update", status |-> HTTP_200_OK, detail |-> "", reasons |-> <<>>,
                  profile |-> IF profile.exists THEN profile ELSE PendingProfile,
                  update_data |-> [enrollmentEmbeddings |-> embeddings,
                                   voiceEmbedding |-> MeanEmbedding(embeddings),
                                   status |-> "READY"]]
        after(files) ==
            IF files.status # HTTP_200_OK THEN ended(files.status, files.detail, files.reasons)
            ELSE IF Len(files.embeddings) = 0
                 THEN ended(HTTP_500_INTERNAL_SERVER_ERROR, "No embeddings extracted", <<>>)
            ELSE IF ~SameDimension(files.embeddings)
                 THEN ended(HTTP_500_INTERNAL_SERVER_ERROR, "Embedding dimension mismatch", <<>>)
            ELSE store(files.embeddings)
    IN  IF Len(audio_files) # EnrollmentCount
        THEN ended(HTTP_400_BAD_REQUEST, "Exactly 3 audio files are required for voice enrollment", <<>>)
        ELSE after(EnrollFiles(audio_files, 1, <<>>))

\* doc_ref.update(update_data) of enroll_voice: the profile stored afterwards
enroll_voice_update(profile, update_data, updateOk) ==
    IF ~updateOk THEN profile
    ELSE [profile EXCEPT !.enrollmentEmbeddings = update_data.enrollmentEmbeddings,
                         !.voiceEmbedding = update_data.voiceEmbedding,
                         !.status = update_data.status]

\* 'if not x' on a list field read with profile_data.get: the field is absent or is the
\* empty list, and both are <<>> in the model
NotStored(field) == field = <<>>

\* the enrollment_embeddings verify_voice and process_audio_analysis hand to the
\* verification: the stored list, else the legacy averaged embedding as a one-element list
enrollment_input(profile_data) ==
    IF ~NotStored(profile_data.enrollmentEmbeddings) THEN profile_data.enrollmentEmbeddings
    ELSE IF ~NotStored(profile_data.voiceEmbedding) THEN <<profile_data.voiceEmbedding>>
    ELSE <<>>

\* POST /verify: verify_voice(request)
verify_voice(sessionAudioEmbedding, profile, docs, environ, dbOk, sink, ulog, glog) ==
    LET failed(status, detail) ==
            [status |-> status, detail |-> detail, enrollment_embeddings |-> <<>>, result |-> None,
             internalState |-> None, score |-> None, userLog |-> ulog, globalLog |-> glog]
        respond(enrollment_embeddings, v) ==
            IF v.exc # None
            THEN [failed(HTTP_500_INTERNAL_SERVER_ERROR, "Failed to verify voice") EXCEPT
                      !.enrollment_embeddings = enrollment_embeddings,
                      !.userLog = v.userLog, !.globalLog = v.globalLog]
            ELSE [status |-> HTTP_200_OK, detail |-> "", enrollment_embeddings |-> enrollment_embeddings,
                  result |-> v.decision.decision, internalState |-> v.decision.internalState,
                  score |-> IF v.decision.maxSimilarity > 0 THEN v.decision.maxSimilarity ELSE None,
                  userLog |-> v.userLog, globalLog |-> v.globalLog]
        verify(enrollment_embeddings) ==
            respond(enrollment_embeddings,
                    verify_speaker(sessionAudioEmbedding, enrollment_embeddings, None, "u1", docs, environ, dbOk, sink, ulog, glog))
    IN  IF ~profile.exists
        THEN failed(HTTP_404_NOT_FOUND, "Voice profile not found. Please enroll your voice first.")
        ELSE IF NotStored(profile.enrollmentEmbeddings) /\ NotStored(profile.voiceEmbedding)
        THEN failed(HTTP_404_NOT_FOUND, "Voice embedding not found. Please re-enroll your voice.")
        ELSE verify(enrollment_input(profile))

\* a clip of the given length that passes every other check
CleanClip(duration_ms) ==
    [loads |-> TRUE, duration_ms |-> duration_ms, silence_ratio |-> 100, rms |-> 2000, clipping_ratio |-> 0, sample_rate |-> 16000, channels |-> 1]

EnrollAudio == {CleanClip(3999), CleanClip(5000), CleanClip(8000), [CleanClip(8000) EXCEPT !.silence_ratio = 301]}

EnrollExtractions == {Extracted(<<3, 4>>), Extracted(<<5>>), ExtractionFailed("boom")}

UploadedFiles == [audio : EnrollAudio, extraction : EnrollExtractions]

\* the uploads of one enroll_voice request: three files, or two
EnrollUploads == [1..EnrollmentCount -> UploadedFiles] \cup {<<f, f>> : f \in UploadedFiles}

\* the voice_profiles document before the requests: none, one written by an earlier
\* enroll_voice, and one of the legacy format that has the averaged embedding only
EnrolledProfile == [exists |-> TRUE, status |-> "READY", enrollmentEmbeddings |-> <<<<4, 3>>, <<4, 3>>, <<3, 4>>>>, voiceEmbedding |-> <<11, 10>>]
LegacyProfile == [exists |-> TRUE, status |-> "READY", enrollmentEmbeddings |-> <<>>, voiceEmbedding |-> <<9, 12>>]
InitialProfiles == {NoProfile, EnrolledProfile, LegacyProfile}

InitEnrollment ==
    /\ thresholdDocs \in VerifyDocs
    /\ osEnviron = PlainEnviron
    /\ userLog = EmptyUserLog
    /\ globalLog = <<>>
    /\ ret = NoRet
    /\ split = NoSplit
    /\ job = NoJob
    /\ voiceProfile \in InitialProfiles
    /\ userPrivacy = NoPrivacy
    /\ listeningSessions = <<>>
    /\ requests = <<>>

ValidateAudioFile(audio) ==
    /\ \E r \in {validate_audio_file(audio)} :
           ret' = [op |-> "validate_audio_file", audio |-> audio, status |-> r.status, reasons |-> r.reasons]
    /\ UNCHANGED <<thresholdDocs, osEnviron, userLog, globalLog, pipelineVars, apiVars>>

\* enroll_voice from the request to doc_ref.set
EnrollVoice(audio_files, setOk) ==
    /\ \E r \in {enroll_voice(audio_files, voiceProfile, setOk)} :
           /\ voiceProfile' = r.profile
           /\ IF r.pc = "done"
              THEN /\ ret' = [op |-> "enroll_voice", audio_files |-> audio_files, before |-> voiceProfile,
                              status |-> r.status, detail |-> r.detail, reasons |-> r.reasons]
                   /\ requests' = <<>>
              ELSE /\ ret' = ret
                   /\ requests' = <<[op |-> "enroll_voice", audio_files |-> audio_files, before |-> voiceProfile,
                                     update_data |-> r.update_data]>>
    /\ UNCHANGED <<thresholdDocs, osEnviron, userLog, globalLog, pipelineVars, userPrivacy, listeningSessions>>

\* enroll_voice from doc_ref.update to the response
EnrollVoiceUpdate(updateOk) ==
    /\ requests # <<>>
    /\ voiceProfile' = enroll_voice_update(voiceProfile, requests[1].update_data, updateOk)
    /\ ret' = [op |-> "enroll_voice", audio_files |-> requests[1].audio_files, before |-> requests[1].before,
               status |-> IF updateOk THEN HTTP_200_OK ELSE HTTP_500_INTERNAL_SERVER_ERROR,
               detail |-> IF updateOk THEN "" ELSE "Failed to enroll voice", reasons |-> <<>>]
    /\ requests' = <<>>
    /\ UNCHANGED <<thresholdDocs, osEnviron, userLog, globalLog, pipelineVars, userPrivacy, listeningSessions>>

VerifyVoice(sessionAudioEmbedding, sink) ==
    /\ \E r \in {verify_voice(sessionAudioEmbedding, voiceProfile, thresholdDocs, osEnviron, TRUE, sink, userLog, globalLog)} :
           /\ ret' = [op |-> "verify_voice", sessionAudioEmbedding |-> sessionAudioEmbedding, profile |-> voiceProfile,
                      status |-> r.status, detail |-> r.detail, enrollment_embeddings |-> r.enrollment_embeddings,
                      result |-> r.result, internalState |-> r.internalState, score |-> r.score]
           /\ userLog' = r.userLog
           /\ globalLog' = r.globalLog
    /\ UNCHANGED <<thresholdDocs, osEnviron, pipelineVars, apiVars>>

\* one enroll_voice request, a /validate request instead of it, and one verify_voice
\* request at any point, between set and update of the enrollment included
NextEnrollment ==
    \/ Idle /\ requests = <<>> /\ \E audio \in EnrollAudio : ValidateAudioFile(audio)
    \/ Idle /\ requests = <<>> /\ \E audio_files \in EnrollUploads, setOk \in BOOLEAN : EnrollVoice(audio_files, setOk)
    \/ \E updateOk \in BOOLEAN : EnrollVoiceUpdate(updateOk)
    \/ ret.op \notin {"verify_voice", "validate_audio_file"} /\ \E sessionAudioEmbedding \in Probes, sink \in SinksFor("u1") : VerifyVoice(sessionAudioEmbedding, sink)

SpecEnrollment == InitEnrollment /\ [][NextEnrollment]_vars

(***************************************************************************)
(* Claims on enrollment and verification through the API                   *)
(***************************************************************************)
Reasons(seq) == {seq[k] : k \in 1..Len(seq)}

\* C21: enroll_voice rejects with TOO_SHORT every clip shorter than 8 s (here: a first
\* clip shorter than 8 s ends the call with 400 and the reason TOO_SHORT), while the
\* /validate endpoint reports TOO_SHORT exactly for the clips shorter than 4 s
C21_EnrollmentNeedsEightSeconds ==
    /\ (/\ ret.op = "enroll_voice"
        /\ Len(ret.audio_files) = EnrollmentCount
        /\ ret.audio_files[1].audio.duration_ms < 8000)
           => ret.status = HTTP_400_BAD_REQUEST /\ "TOO_SHORT" \in Reasons(ret.reasons)
    /\ ret.op = "validate_audio_file"
           => ("TOO_SHORT" \in Reasons(ret.reasons) <=> ret.audio.duration_ms < 4000)

\* the enrollment set stored in a voice_profiles document
StoredSet(profile) == IF profile.exists THEN profile.enrollmentEmbeddings ELSE <<>>

\* the embeddings extracted from the uploads of one call, in upload order
ExtractedSet(audio_files) == [k \in 1..Len(audio_files) |-> audio_files[k].extraction.embedding]

\* every upload passed validate_audio_quality and its extraction succeeded
AllPassed(audio_files) ==
    \A k \in 1..Len(audio_files) :
        /\ validate_audio_quality(audio_files[k].audio).status = "PASS"
        /\ audio_files[k].extraction.exc = None

\* C22: after an enroll_voice call the stored enrollment set is either the one stored
\* before the call or exactly the 3 embeddings extracted in the call, each from a clip
\* whose validation returned PASS; when validation or extraction of a clip fails, and
\* while the call is between its two writes, the stored set is the one stored before
C22_EnrollmentSetReplacedWholesale ==
    /\ requests # <<>> => StoredSet(voiceProfile) = StoredSet(requests[1].before)
    /\ ret.op = "enroll_voice" =>
           /\ \/ StoredSet(voiceProfile) = StoredSet(ret.before)
              \/ /\ Len(ret.audio_files) = EnrollmentCount
                 /\ AllPassed(ret.audio_files)
                 /\ StoredSet(voiceProfile) = ExtractedSet(ret.audio_files)
           /\ ~AllPassed(ret.audio_files) => StoredSet(voiceProfile) = StoredSet(ret.before)

\* a re-enrollment replaced the three stored embeddings by the three extracted ones
C22_Witness ==
    /\ ret.op = "enroll_voice"
    /\ ret.status = HTTP_200_OK
    /\ ret.before = EnrolledProfile
    /\ StoredSet(voiceProfile) = ExtractedSet(ret.audio_files)
    /\ StoredSet(voiceProfile) # StoredSet(ret.before)

\* C23: the averaged (legacy) embedding is never the verification input: a verification
\* that verify_voice runs compares the probe against the individually stored enrollment
\* embeddings of the profile
C23_AverageNeverVerificationInput ==
    (ret.op = "verify_voice" /\ ret.enrollment_embeddings # <<>>)
        => /\ ret.enrollment_embeddings = ret.profile.enrollmentEmbeddings
           /\ ret.enrollment_embeddings # <<ret.profile.voiceEmbedding>>

(***************************************************************************)
(* services/embedding_service.py: the local MFCC extractor.  The audio is  *)
(* its number of samples and its sample rate; the embedding is the number  *)
(* of analysis frames it is computed from and its dimension.               *)
(***************************************************************************)
MaxSamples == 520         \* longest audio handed to the extractor, in samples

N_FFT == 512
HOP_LENGTH == 160
TARGET_DIM == 120
TARGET_SAMPLE_RATE == 16000

\* the message of the ValueError that wraps every exception of the extraction
ExtractionErrorMsg == "Failed to extract speaker embedding"

\* extract_mfcc framing: int(np.ceil(float(np.abs(signal_length - frame_length)) / frame_step))
NumFrames(signal_length) == CeilDiv(Abs(signal_length - N_FFT), HOP_LENGTH)

\* the samples after 'if sample_rate != 16000: signal.resample(audio, num_samples)'
ResampledLength(samples, sample_rate) ==
    IF sample_rate # TARGET_SAMPLE_RATE THEN (samples * TARGET_SAMPLE_RATE) \div sample_rate ELSE samples

\* extract_speaker_embedding(audio_path) on a readable WAV file: audio.max() raises on an
\* empty array, np.min(mfcc_features, axis=0) raises on zero frames, and every exception
\* is re-raised as ValueError; mean, std, min and max of the 13 coefficients are
\* padded to 120 dimensions
extract_speaker_embedding(samples, sample_rate) ==
    LET failed(num_samples) ==
            [exc |-> "ValueError", msg |-> ExtractionErrorMsg, num_samples |-> num_samples, num_frames |-> 0, dimension |-> 0]
        embed(num_samples, num_frames) ==
            IF num_frames = 0 THEN failed(num_samples)
            ELSE [exc |-> None, msg |-> "", num_samples |-> num_samples, num_frames |-> num_frames, dimension |-> TARGET_DIM]
        mfcc(num_samples) ==
            IF num_samples = 0 THEN failed(num_samples)
            ELSE embed(num_samples, NumFrames(num_samples))
    IN  IF samples = 0 THEN failed(0)
        ELSE mfcc(ResampledLength(samples, sample_rate))

SampleRates == {8000, 16000}

InitEmbedding ==
    /\ thresholdDocs = [e \in EnvNames |-> NoDoc]
    /\ osEnviron = PlainEnviron
    /\ userLog = EmptyUserLog
    /\ globalLog = <<>>
    /\ ret = NoRet
    /\ split = NoSplit
    /\ job = NoJob
    /\ NoApiState

ExtractSpeakerEmbedding(samples, sample_rate) ==
    /\ \E r \in {extract_speaker_embedding(samples, sample_rate)} :
           ret' = [op |-> "extract_speaker_embedding", samples |-> samples, sample_rate |-> sample_rate,
                   exc |-> r.exc, msg |-> r.msg, num_samples |-> r.num_samples,
                   num_frames |-> r.num_frames, dimension |-> r.dimension]
    /\ UNCHANGED <<thresholdDocs, osEnviron, userLog, globalLog, pipelineVars, apiVars>>

NextEmbedding == Idle /\ \E samples \in 0..MaxSamples, sample_rate \in SampleRates : ExtractSpeakerEmbedding(samples, sample_rate)

SpecEmbedding == InitEmbedding /\ [][NextEmbedding]_vars

\* C24: the extractor fails for every input with fewer samples than one analysis window
\* (400 samples at 16 kHz) and returns an embedding computed from at least one analysis
\* frame for every input of at least one full window
C24_InsufficientAudioBelowOneWindow ==
    ret.op = "extract_speaker_embedding" =>
        IF ret.num_samples < 400
        THEN ret.exc # None
        ELSE ret.exc = None /\ ret.num_frames >= 1

(***************************************************************************)
(* api/sessions.py: start_session and stop_session.  The handlers are      *)
(* plain 'def' endpoints, which FastAPI runs on worker threads: requests   *)
(* interleave between their Firestore calls.  One user (uid u1); session   *)
(* ids are the positions in listeningSessions.                             *)
(***************************************************************************)
MaxRequests == 2          \* requests in one behaviour, each on its own thread

Threads == 1..MaxRequests

ListeningDisabledDetail == "Listening is disabled in privacy settings."

\* get_user_privacy_preferences(uid, db): defaults when no record exists
get_user_privacy_preferences(privacy) ==
    IF ~privacy.exists THEN [listeningEnabled |-> FALSE, dataAnalysisEnabled |-> FALSE]
    ELSE [listeningEnabled |-> privacy.listeningEnabled, dataAnalysisEnabled |-> privacy.dataAnalysisEnabled]

\* a response of a handler
Response(op, status, detail, session_id) == [op |-> op, pc |-> "done", status |-> status, detail |-> detail, session_id |-> session_id]

\* .where('uid', '==', uid).where('status', '==', 'ACTIVE'): the ids the query matches
ActiveSessions(sessions, uid) == {id \in DOMAIN sessions : sessions[id].uid = uid /\ sessions[id].status = "ACTIVE"}

\* start_session up to the query for an ACTIVE session; the HTTPException 403 raised in
\* the try block is caught by 'except Exception' and answered as 500
start_session_query(uid, privacy_prefs, active_session_list) ==
    IF ~privacy_prefs.listeningEnabled
    THEN Response("start_session", HTTP_500_INTERNAL_SERVER_ERROR, "Failed to start session", 0)
    ELSE [op |-> "start_session", pc |-> "queried", uid |-> uid, active_session_list |-> active_session_list]

\* session_data of a new session
NewSession(uid) == [uid |-> uid, status |-> "ACTIVE", audioUrl |-> Missing, analysisStatus |-> Missing]

\* start_session after the query: the existing session is returned, or doc_ref.set
\* stores a new one; the sessions afterwards and the response
start_session_finish(request, sessions) ==
    IF request.active_session_list # <<>>
    THEN [sessions |-> sessions,
          response |-> Response("start_session", HTTP_200_OK, "existing", request.active_session_list[1])]
    ELSE [sessions |-> Append(sessions, NewSession(request.uid)),
          response |-> Response("start_session", HTTP_200_OK, "created", Len(sessions) + 1)]

\* stop_session up to doc_ref.get(): the response if the call ends here
stop_session_get(uid, session_id, sessions) ==
    IF session_id \notin DOMAIN sessions
    THEN Response("stop_session", HTTP_404_NOT_FOUND, "Session not found", session_id)
    ELSE IF sessions[session_id].uid # uid
    THEN Response("stop_session", HTTP_403_FORBIDDEN, "You do not have permission to stop this session", session_id)
    ELSE IF sessions[session_id].status = "STOPPED"
    THEN Response("stop_session", HTTP_200_OK, "stopped", session_id)
    ELSE [op |-> "stop_session", pc |-> "update", uid |-> uid, session_id |-> session_id]

\* doc_ref.update({'endedAt', 'status': 'STOPPED', 'totals'}) of stop_session
stop_session_update(request, sessions) ==
    [sessions EXCEPT ![request.session_id].status = "STOPPED"]

NoRequest == [op |-> "none", pc |-> "idle"]

PrivacyDocs ==
    {NoPrivacy} \cup [exists : {TRUE}, listeningEnabled : BOOLEAN, dataAnalysisEnabled : {TRUE}]

\* the sessions stored before the requests: none, a stopped one, an active one, and a
\* session of another user
InitialSessions ==
    {<<>>, <<[NewSession("u1") EXCEPT !.status = "STOPPED"]>>, <<NewSession("u1")>>, <<NewSession("u2")>>}

InitSessions ==
    /\ thresholdDocs = [e \in EnvNames |-> NoDoc]
    /\ osEnviron = PlainEnviron
    /\ userLog = EmptyUserLog
    /\ globalLog = <<>>
    /\ ret = NoRet
    /\ split = NoSplit
    /\ job = NoJob
    /\ voiceProfile = NoProfile
    /\ userPrivacy \in PrivacyDocs
    /\ listeningSessions \in InitialSessions
    /\ requests = [t \in Threads |-> NoRequest]

\* start_session: privacy check and query, the active sessions existing at the request
\* being remembered for the response
StartSessionQuery(t) ==
    /\ requests[t].pc = "idle"
    /\ \E active_session_list \in {<<id>> : id \in ActiveSessions(listeningSessions, "u1")} \cup {<<>>} :
           /\ active_session_list = <<>> => ActiveSessions(listeningSessions, "u1") = {}
           /\ requests' = [requests EXCEPT ![t] = start_session_query("u1", get_user_privacy_preferences(userPrivacy), active_session_list)]
    /\ UNCHANGED <<thresholdDocs, osEnviron, userLog, globalLog, ret, pipelineVars, voiceProfile, userPrivacy, listeningSessions>>

StartSessionFinish(t) ==
    /\ requests[t].op = "start_session"
    /\ requests[t].pc = "queried"
    /\ \E r \in {start_session_finish(requests[t], listeningSessions)} :
           /\ listeningSessions' = r.sessions
           /\ requests' = [requests EXCEPT ![t] = r.response]
    /\ UNCHANGED <<thresholdDocs, osEnviron, userLog, globalLog, ret, pipelineVars, voiceProfile, userPrivacy>>

StopSessionGet(t, session_id) ==
    /\ requests[t].pc = "idle"
    /\ requests' = [requests EXCEPT ![t] = stop_session_get("u1", session_id, listeningSessions)]
    /\ UNCHANGED <<thresholdDocs, osEnviron, userLog, globalLog, ret, pipelineVars, voiceProfile, userPrivacy, listeningSessions>>

StopSessionUpdate(t) ==
    /\ requests[t].op = "stop_session"
    /\ requests[t].pc = "update"
    /\ listeningSessions' = stop_session_update(requests[t], listeningSessions)
    /\ requests' = [requests EXCEPT ![t] = Response("stop_session", HTTP_200_OK, "stopped", requests[t].session_id)]
    /\ UNCHANGED <<thresholdDocs, osEnviron, userLog, globalLog, ret, pipelineVars, voiceProfile, userPrivacy>>

NextSessions ==
    \E t \in Threads :
        \/ StartSessionQuery(t)
        \/ StartSessionFinish(t)
        \/ \E session_id \in 1..(Len(listeningSessions) + 1) : StopSessionGet(t, session_id)
        \/ StopSessionUpdate(t)

SpecSessions == InitSessions /\ [][NextSessions]_vars

\* C25: a user never has more than one listening session with status ACTIVE, under any
\* interleaving of start_session and stop_session requests
C25_AtMostOneActiveSession == Cardinality(ActiveSessions(listeningSessions, "u1")) <= 1

\* C26: when listeningEnabled is false or no preference record exists, start_session
\* is rejected with HTTP 403 'Listening is disabled in privacy settings.' and creates no
\* session
C26_ListeningDisabledRejected ==
    \A t \in Threads :
        (/\ requests[t].op = "start_session"
         /\ requests[t].pc = "done"
         /\ ~get_user_privacy_preferences(userPrivacy).listeningEnabled)
            => /\ requests[t].status = HTTP_403_FORBIDDEN
               /\ requests[t].detail = ListeningDisabledDetail
               /\ requests[t].session_id = 0

(***************************************************************************)
(* api/analysis.py: is_owner_segment, the transcript filter.  Times are in *)
(* units of 0.5 s, so the comparison with 50% is exact.                    *)
(***************************************************************************)
MaxSegmentTime == 72      \* latest start or end of a transcript segment (36 s)

Max(a, b) == IF a > b THEN a ELSE b

\* the loop of is_owner_segment: the sum over the OWNER chunks of the overlap with each
RECURSIVE OverlapDuration(_, _, _)
OverlapDuration(segment_start, segment_end, owner_chunks) ==
    IF owner_chunks = <<>> THEN 0
    ELSE LET overlap(overlap_start, overlap_end) == IF overlap_end > overlap_start THEN overlap_end - overlap_start ELSE 0
         IN  overlap(Max(segment_start, Head(owner_chunks)[1]), Min(segment_end, Head(owner_chunks)[2]))
                 + OverlapDuration(segment_start, segment_end, Tail(owner_chunks))

\* is_owner_segment(segment_start, segment_end, owner_chunks)
is_owner_segment(segment_start, segment_end, owner_chunks) ==
    IF segment_end - segment_start <= 0 THEN FALSE
    ELSE 2 * OverlapDuration(segment_start, segment_end, owner_chunks) >= segment_end - segment_start

\* (cv.startTime, cv.endTime) of the chunks split_audio makes of a recording of 35 s with
\* the defaults: [0, 12], [11.5, 23.5] and [23, 35]
SegmentChunks == <<<<0, 24>>, <<23, 47>>, <<46, 70>>>>

\* 'for cv in chunk_verifications: if cv.decision.decision == "OWNER"': the intervals of
\* the chunks decided OWNER, in chunk order
RECURSIVE OwnerChunks(_, _)
OwnerChunks(chunks, owners) ==
    IF chunks = <<>> THEN <<>>
    ELSE IF Len(chunks) \in owners THEN Append(OwnerChunks(SubSeq(chunks, 1, Len(chunks) - 1), owners), chunks[Len(chunks)])
    ELSE OwnerChunks(SubSeq(chunks, 1, Len(chunks) - 1), owners)

InitSegments ==
    /\ thresholdDocs = [e \in EnvNames |-> NoDoc]
    /\ osEnviron = PlainEnviron
    /\ userLog = EmptyUserLog
    /\ globalLog = <<>>
    /\ ret = NoRet
    /\ split = NoSplit
    /\ job = NoJob
    /\ NoApiState

IsOwnerSegment(segment_start, segment_end, owners) ==
    /\ \E owner_chunks \in {OwnerChunks(SegmentChunks, owners)} :
           ret' = [op |-> "is_owner_segment", segment_start |-> segment_start, segment_end |-> segment_end,
                   owner_chunks |-> owner_chunks,
                   result |-> is_owner_segment(segment_start, segment_end, owner_chunks)]
    /\ UNCHANGED <<thresholdDocs, osEnviron, userLog, globalLog, pipelineVars, apiVars>>

NextSegments ==
    /\ Idle
    /\ \E segment_start \in 0..MaxSegmentTime, segment_end \in 0..MaxSegmentTime, owners \in SUBSET (1..Len(SegmentChunks)) :
           IsOwnerSegment(segment_start, segment_end, owners)

SpecSegments == InitSegments /\ [][NextSegments]_vars

\* the part of [segment_start, segment_end) that lies inside the union of the chunks
InsideUnion(segment_start, segment_end, owner_chunks) ==
    Cardinality({x \in segment_start..(segment_end - 1) :
                     \E k \in 1..Len(owner_chunks) : owner_chunks[k][1] <= x /\ x < owner_chunks[k][2]})

\* C27: is_owner_segment returns True exactly when at least 50% of the segment's duration
\* lies inside the union of the OWNER chunks' intervals, overlapping consecutive OWNER
\* chunks included, and False for segments of zero or negative duration
C27_OwnerSegmentByUnionCoverage ==
    ret.op = "is_owner_segment" =>
        (ret.result <=> /\ ret.segment_end > ret.segment_start
                        /\ 2 * InsideUnion(ret.segment_start, ret.segment_end, ret.owner_chunks)
                               >= ret.segment_end - ret.segment_start)

(***************************************************************************)
(* C28: process_audio_analysis as a background task.  FastAPI awaits the   *)
(* coroutine after the response and the event loop runs it to its end, so  *)
(* a step of the task that is enabled is eventually taken.                 *)
(***************************************************************************)
SpecAnalysisLive == InitAnalysis /\ [][NextAnalysis]_vars /\ WF_vars(NextAnalysis)

\* the run ended because the stt update or analyze_speech raised
SpeechAnalysisFailed ==
    job.errorReason \in {"Analysis failed: stt_update_raises", "Analysis failed: analyze_speech_raises"}

\* C28: a run whose audio file exists, whose user has data analysis enabled and whose
\* speech-to-text returned a non-empty transcript eventually ends with analysisStatus
\* COMPLETED, unless the speech analysis (or the update before it) fails
C28_EventuallyCompleted ==
    (job.pc = "finish") ~> (job.pc = "done" /\ (job.analysisStatus = "COMPLETED" \/ SpeechAnalysisFailed))

(***************************************************************************)
(* api/analysis.py: process_analysis, the endpoint that schedules          *)
(* process_audio_analysis as a background task.  The handler has no await  *)
(* and is one step; the task it adds runs after the response was sent, so  *)
(* other requests are handled between the two.  One session (id 1).        *)
(***************************************************************************)
\* the answer of process_analysis: an HTTP error, a message without scheduling, or the
\* task added with background_tasks.add_task
process_analysis(uid, session_id, sessions, privacy_prefs) ==
    LET answer(pc, status, message) == [op |-> "process_analysis", pc |-> pc, status |-> status, message |-> message]
        check(session_data) ==
            IF session_data.uid # uid
            THEN answer("done", HTTP_403_FORBIDDEN, "You do not have permission to process this session")
            ELSE IF session_data.audioUrl = Missing
            THEN answer("done", HTTP_400_BAD_REQUEST, "Session has no audio file to process")
            ELSE IF session_data.analysisStatus = "PROCESSING"
            THEN answer("done", HTTP_200_OK, "Analysis is already in progress")
            ELSE IF session_data.analysisStatus = "COMPLETED"
            THEN answer("done", HTTP_200_OK, "Analysis already completed")
            ELSE IF ~privacy_prefs.dataAnalysisEnabled
            THEN answer("done", HTTP_403_FORBIDDEN, "Data analysis is disabled in privacy settings")
            ELSE answer("scheduled", HTTP_200_OK, "Analysis started. Results will be available shortly.")
    IN  IF session_id \notin DOMAIN sessions
        THEN answer("done", HTTP_404_NOT_FOUND, "Session not found")
        ELSE check(sessions[session_id])

\* process_audio_analysis: session_ref.update({'analysisStatus': 'PROCESSING'})
task_start(sessions, session_id) == [sessions EXCEPT ![session_id].analysisStatus = "PROCESSING"]

\* process_audio_analysis: the update that ends the run, with FAILED or COMPLETED
task_end(sessions, session_id, analysisStatus) == [sessions EXCEPT ![session_id].analysisStatus = analysisStatus]

\* a stopped session with uploaded audio
UploadedSession(uid, analysisStatus) == [uid |-> uid, status |-> "STOPPED", audioUrl |-> "uploads/audio.wav", analysisStatus |-> analysisStatus]

ProcessingSessions ==
    {<<UploadedSession("u1", s)>> : s \in {Missing, "PENDING", "FAILED", "COMPLETED"}}
        \cup {<<UploadedSession("u2", "PENDING")>>, <<[UploadedSession("u1", Missing) EXCEPT !.audioUrl = Missing]>>}

InitProcessing ==
    /\ thresholdDocs = [e \in EnvNames |-> NoDoc]
    /\ osEnviron = PlainEnviron
    /\ userLog = EmptyUserLog
    /\ globalLog = <<>>
    /\ ret = NoRet
    /\ split = NoSplit
    /\ job = NoJob
    /\ voiceProfile = NoProfile
    /\ userPrivacy \in {NoPrivacy, [exists |-> TRUE, listeningEnabled |-> TRUE, dataAnalysisEnabled |-> TRUE]}
    /\ listeningSessions \in ProcessingSessions
    /\ requests = [t \in Threads |-> NoRequest]

\* the positions of the runs that the other requests have scheduled
OtherRuns(t) == {requests[o].pc : o \in Threads \ {t}} \cap {"scheduled", "running", "COMPLETED", "FAILED"}

\* a process_analysis request; an accepted one remembers the runs scheduled before it
ProcessAnalysis(t, session_id) ==
    /\ requests[t].pc = "idle"
    /\ \E r \in {process_analysis("u1", session_id, listeningSessions, get_user_privacy_preferences(userPrivacy))} :
           requests' = [requests EXCEPT ![t] = [op |-> r.op, pc |-> r.pc, status |-> r.status, message |-> r.message,
                                                session_id |-> session_id, earlier |-> OtherRuns(t)]]
    /\ UNCHANGED <<thresholdDocs, osEnviron, userLog, globalLog, ret, pipelineVars, voiceProfile, userPrivacy, listeningSessions>>

\* the background task starts
TaskStart(t) ==
    /\ requests[t].pc = "scheduled"
    /\ listeningSessions' = task_start(listeningSessions, requests[t].session_id)
    /\ requests' = [requests EXCEPT ![t].pc = "running"]
    /\ UNCHANGED <<thresholdDocs, osEnviron, userLog, globalLog, ret, pipelineVars, voiceProfile, userPrivacy>>

\* the background task ends
TaskEnd(t, analysisStatus) ==
    /\ requests[t].pc = "running"
    /\ listeningSessions' = task_end(listeningSessions, requests[t].session_id, analysisStatus)
    /\ requests' = [requests EXCEPT ![t].pc = analysisStatus]
    /\ UNCHANGED <<thresholdDocs, osEnviron, userLog, globalLog, ret, pipelineVars, voiceProfile, userPrivacy>>

NextProcessing ==
    \E t \in Threads :
        \/ \E session_id \in 1..2 : ProcessAnalysis(t, session_id)
        \/ TaskStart(t)
        \/ \E analysisStatus \in {"FAILED", "COMPLETED"} : TaskEnd(t, analysisStatus)

SpecProcessing == InitProcessing /\ [][NextProcessing]_vars

\* C29: a process_analysis request that arrives after another request was accepted
\* schedules no second run while the first run is pending, processing or completed
C29_AtMostOneRunScheduled ==
    \A t \in Threads :
        requests[t].pc \in {"scheduled", "running", "COMPLETED", "FAILED"}
            => requests[t].earlier \cap {"scheduled", "running", "COMPLETED"} = {}

(***************************************************************************)
(* C30: progress of split_audio, under SpecChunking                        *)
(***************************************************************************)
\* the call has 0 <= overlap < chunk_duration
OverlapBelowChunkDuration == split.pc # "idle" /\ 0 <= split.overlap /\ split.overlap < split.chunk_duration

\* the recording needs fewer than 1000 chunks of chunk_duration advancing by
\* chunk_duration - overlap
NeedsFewerThanCap == CeilDiv(split.total_duration_ms, split.chunk_duration_ms - split.overlap_ms) < MAX_CHUNK_INDEX

\* C30: for 0 <= overlap < chunk_duration each emitted chunk starts strictly later than
\* the previous one, and for recordings needing fewer than 1000 chunks the loop ends
\* because the audio is exhausted, not because the chunk cap is reached
C30_SplitMakesProgress ==
    OverlapBelowChunkDuration =>
        /\ \A k \in 2..Len(split.chunks) : split.chunks[k].start_time > split.chunks[k - 1].start_time
        /\ (split.pc = "done" /\ NeedsFewerThanCap) => ~TooManyChunks(split.chunk_index)

====
